---- MODULE Spec2Model ----
(***************************************************************************)
(* State-machine model of the back-office services of check-diamond:       *)
(*   - UserService (services/userService) and useUserStore,                *)
(*   - NotificationService and useNotificationStore,                       *)
(*   - BackupService and useBackupStore.                                   *)
(* Each subsystem has its own specification (UserSpec, NotifSpec,          *)
(* BackupSpec); the variables of the other subsystems stay at their        *)
(* initial values. UserServiceSpec and NotifServiceSpec run a service      *)
(* without its store.                                                      *)
(***************************************************************************)
EXTENDS Integers, Sequences, FiniteSets, TLC

VARIABLES
    \* ---- UserService / useUserStore
    users,            \* UserService.users: sequence of user objects
    currentUser,      \* UserService.currentUser: oid of the user object, 0 = null
    nextOid,          \* next object identity to allocate for a created user
    updates,          \* number of successful updateUser calls so far
    storeCurrentUser, \* useUserStore.currentUser: oid, 0 = null
    isAuthenticated,  \* useUserStore.isAuthenticated
    storeUsers,       \* useUserStore.users: sequence of references (oids)
    storeAliased,     \* TRUE while useUserStore.users IS the array UserService.users
    uret,             \* outcome of the last UserService call

    \* ---- NotificationService / useNotificationStore
    notifications,    \* NotificationService.notifications
    queue,            \* NotificationService.queue.notifications
    settings,         \* NotificationService.settings (category toggles, quiet hours)
    stored,           \* localStorage['check-diamond-notifications']
    nextNid,          \* next notification id to generate
    clock,            \* index of the current instant in Instants
    sNotifications,   \* useNotificationStore.notifications
    unreadCount,      \* useNotificationStore.unreadCount
    activeToasts,     \* useNotificationStore.activeToasts (ids)
    nret,             \* the last notification operation: the id it returned and the
                      \* ids it passed to the subscribed listeners, in call order

    \* ---- BackupService / useBackupStore
    backups,          \* BackupService.backups: sequence of backup ids (references)
    heap,             \* the BackupItem objects ever created, indexed by id
    tasks,            \* createBackup calls in flight: id -> position in the method
    revoked,          \* ids of the backups whose object URL went to revokeObjectURL
    day,              \* index of the current day in Days
    nextBid,          \* next backup id to generate
    sBackups,         \* useBackupStore.backups: sequence of references (ids)
    bret,             \* outcome of the last BackupService call that settled

    \* ---- NotificationService real-time connection
    connected,        \* connectionStatus.connected
    reconnectAttempts,\* connectionStatus.reconnectAttempts
    reconnectTimers,  \* pending setTimeout callbacks of handleConnectionError
    connNow,          \* seconds elapsed since the service was constructed
    cret,             \* the last connection step and its outcome

    \* ---- BackupService scheduler
    configs,          \* BackupService.configs: sequence of references to config objects
    cheap,            \* the BackupConfig objects ever created, indexed by reference
    nextCid,          \* next config id to generate
    polls,            \* checkScheduledBackups calls in flight
    nPolls,           \* number of polls started so far
    sret,             \* the last scheduler step

    \* ---- AnalyticsService and the data store it reads
    vendas,           \* useDataStore.vendas: the sales, each with its date
    cache,            \* AnalyticsService.cache: key -> {data, timestamp}
    aNow,             \* Date.now(), in minutes
    aret,             \* the last analytics calculation: its kind, key and result
    pct,              \* calculatePercentChange: two arguments and the value returned

    \* ---- BackupService.restoreBackup and the rest of the data store
    estoque,          \* useDataStore.estoque
    revendedores,     \* useDataStore.revendedores
    restoreOperations,\* BackupService.restoreOperations, newest first
    restoring,        \* the restoreBackup calls waiting for fetch: operation id -> backup id
    nextOp,           \* the number the next operation id is made of
    rret,             \* what the last restoreBackup returned

    \* ---- useAnalyticsStore auto-refresh
    autoRefresh,      \* useAnalyticsStore.autoRefresh
    refreshInterval,  \* useAnalyticsStore.refreshInterval, in seconds
    intervals,        \* the live setInterval timers: handle -> period in seconds
    analyticsRefreshInterval, \* window.analyticsRefreshInterval: a handle, or 0 (undefined)
    nextHandle,       \* the handle the next setInterval returns
    fret,             \* the last auto-refresh step

    \* ---- useAnalyticsStore loading
    isLoading,        \* useAnalyticsStore.isLoading
    error,            \* whether useAnalyticsStore.error is set (not null)
    performanceMetrics, \* whether useAnalyticsStore.performanceMetrics is set (not null)
    microtasks,       \* the async functions suspended at an await, in the order they resume
    joining,          \* the loads Promise.all in loadAllAnalytics still waits for
    nLoads,           \* the loadAllAnalytics calls so far
    lret              \* the last loading step

userVars   == <<users, currentUser, nextOid, updates, storeCurrentUser, isAuthenticated,
                storeUsers, storeAliased, uret>>
notifVars  == <<notifications, queue, settings, stored, nextNid, clock,
                sNotifications, unreadCount, activeToasts, nret>>
backupVars == <<backups, heap, tasks, revoked, day, nextBid, sBackups, bret>>
connVars == <<connected, reconnectAttempts, reconnectTimers, connNow, cret>>
schedVars == <<configs, cheap, nextCid, polls, nPolls, sret>>
analyticsVars == <<vendas, cache, aNow, aret>>
restoreVars == <<estoque, revendedores, restoreOperations, restoring, nextOp, rret>>
refreshVars == <<autoRefresh, refreshInterval, intervals, analyticsRefreshInterval,
                 nextHandle, fret>>
loadVars == <<isLoading, error, performanceMetrics, microtasks, joining, nLoads, lret>>
extraVars == <<connVars, schedVars, analyticsVars, pct, restoreVars, refreshVars, loadVars>>
vars == <<userVars, notifVars, backupVars, extraVars>>

Range(s) == { s[i] : i \in 1..Len(s) }

\* Array.prototype.findIndex: first index whose element satisfies p, 0 when none
FindIndex(s, p(_)) ==
    IF \E i \in 1..Len(s) : p(s[i])
    THEN CHOOSE i \in 1..Len(s) : p(s[i]) /\ \A j \in 1..(i-1) : ~p(s[j])
    ELSE 0

\* Array.prototype.splice(index, 1)
RemoveAt(s, i) == [ j \in 1..(Len(s)-1) |-> IF j < i THEN s[j] ELSE s[j+1] ]

(***************************************************************************)
(*                              USER SERVICE                               *)
(***************************************************************************)

MaxCreated == 1     \* at most this many users are created in a run
MaxUpdates == 1     \* at most this many updateUser calls succeed in a run

AdminEmail   == "juliocorrea@check2.com.br"
ManagerEmail == "manager@agenciacheck.com"
Emails == { AdminEmail, ManagerEmail, "novo@agenciacheck.com" }

AdminPassword == "Ju113007"
Passwords == { "Ju113007", "abc", "ab" }
PasswordLength(p) == IF p = "Ju113007" THEN 8 ELSE IF p = "abc" THEN 3 ELSE 2

Roles == { "admin", "manager", "sales", "viewer" }
RoleInputs == { "admin", "viewer" }      \* roles drawn as inputs of create/update

AllPermissions ==
    { "canViewSales", "canCreateSales", "canEditSales", "canDeleteSales",
      "canViewInventory", "canEditInventory", "canManageStock",
      "canViewPayments", "canManagePayments", "canConfigurePix",
      "canManageUsers", "canViewReports", "canManageBackups", "canAccessAnalytics",
      "canManageResellers", "canManageSettings", "canViewLogs" }

\* ROLE_PERMISSIONS, as the set of capabilities each role maps to true
ROLE_PERMISSIONS ==
    [ r \in Roles |->
        CASE r = "admin"   -> AllPermissions
          [] r = "manager" -> { "canViewSales", "canCreateSales", "canEditSales",
                                "canDeleteSales", "canViewInventory", "canEditInventory",
                                "canManageStock", "canViewPayments", "canViewReports",
                                "canAccessAnalytics", "canManageResellers" }
          [] r = "sales"   -> { "canViewSales", "canCreateSales", "canEditSales",
                                "canViewInventory", "canViewPayments" }
          [] r = "viewer"  -> { "canViewSales", "canViewInventory", "canViewPayments",
                                "canViewReports", "canAccessAnalytics" } ]

\* Object.keys(ROLE_PERMISSIONS[role]).filter(key => ROLE_PERMISSIONS[role][key])
PermissionList(role) == ROLE_PERMISSIONS[role]

NoUpdate == "undefined"     \* an absent field of UpdateUserRequest
ActiveInputs == { NoUpdate, "true", "false" }
PermissionInputs == { NoUpdate, "custom" }
CustomPermissions == { "canViewSales" }

MsgDenied       == "Acesso negado: permissao insuficiente"
MsgEmailInUse   == "Email ja esta em uso"
MsgUserNotFound == "Usuario nao encontrado"
MsgOwnUser      == "Nao e possivel excluir o proprio usuario"
MsgNotFoundOrInactive == "Usuario nao encontrado ou inativo"
MsgBadPassword  == "Senha invalida"
MsgNotAuth      == "Usuario nao autenticado"

\* The outcome of a service call: kind "result" is a returned {success, message}
\* object, "value" a plain returned value, "throw" a rejected promise.
URet(op, kind, success, message) ==
    [ op |-> op, kind |-> kind, success |-> success, message |-> message ]

InitialUsers ==
    << [ oid |-> 1, id |-> 1, email |-> AdminEmail, role |-> "admin",
         isActive |-> TRUE, permissions |-> PermissionList("admin") ],
       [ oid |-> 2, id |-> 2, email |-> ManagerEmail, role |-> "manager",
         isActive |-> TRUE, permissions |-> PermissionList("manager") ] >>

UserByOid(o) == CHOOSE u \in Range(users) : u.oid = o

Oids(s) == [ i \in 1..Len(s) |-> s[i].oid ]

\* UserService.hasPermission
hasPermission(permission) ==
    /\ currentUser # 0
    /\ permission \in ROLE_PERMISSIONS[UserByOid(currentUser).role]

\* useUserStore.users as the store reads it with get(): the service's own array while
\* the store still holds the reference loadUsers put there
StoreUsersView(us) == IF storeAliased THEN Oids(us) ELSE storeUsers

UserInit ==
    /\ users = InitialUsers
    /\ currentUser = 0
    /\ nextOid = 3
    /\ updates = 0
    /\ storeCurrentUser = 0
    /\ isAuthenticated = FALSE
    /\ storeUsers = <<>>
    /\ storeAliased = FALSE
    /\ uret = URet("init", "value", TRUE, "")

\* UserService.getAllUsers: throws when the permission is missing
SvcGetAllUsers ==
    /\ uret' = IF ~hasPermission("canManageUsers")
               THEN URet("getAllUsers", "throw", FALSE, MsgDenied)
               ELSE URet("getAllUsers", "value", TRUE, "")
    /\ UNCHANGED <<users, currentUser, nextOid>>

\* createUser without the "email already exists" check
SvcCreateUser_NoEmailCheck(email, role) ==
    IF ~hasPermission("canManageUsers")
    THEN /\ uret' = URet("createUser", "result", FALSE, MsgDenied)
         /\ UNCHANGED <<users, currentUser, nextOid>>
    ELSE /\ users' = Append(users,
                [ oid |-> nextOid, id |-> Len(users) + 1, email |-> email,
                  role |-> role, isActive |-> TRUE,
                  permissions |-> PermissionList(role) ])
         /\ nextOid' = nextOid + 1
         /\ uret' = URet("createUser", "result", TRUE, "")
         /\ UNCHANGED currentUser

\* UserService.createUser
SvcCreateUser(email, role) ==
    IF ~hasPermission("canManageUsers")
    THEN /\ uret' = URet("createUser", "result", FALSE, MsgDenied)
         /\ UNCHANGED <<users, currentUser, nextOid>>
    ELSE IF \E i \in 1..Len(users) : users[i].email = email
    THEN /\ uret' = URet("createUser", "result", FALSE, MsgEmailInUse)
         /\ UNCHANGED <<users, currentUser, nextOid>>
    ELSE /\ users' = Append(users,
                [ oid |-> nextOid, id |-> Len(users) + 1, email |-> email,
                  role |-> role, isActive |-> TRUE,
                  permissions |-> PermissionList(role) ])
         /\ nextOid' = nextOid + 1
         /\ uret' = URet("createUser", "result", TRUE, "")
         /\ UNCHANGED currentUser

\* The fields updateUser assigns on the user object it found
UpdatedUser(u, role, active, perms) ==
    LET u1 == IF role # NoUpdate
              THEN [u EXCEPT !.role = role, !.permissions = PermissionList(role)]
              ELSE u
        u2 == IF active # NoUpdate THEN [u1 EXCEPT !.isActive = (active = "true")] ELSE u1
    IN  IF perms # NoUpdate THEN [u2 EXCEPT !.permissions = CustomPermissions] ELSE u2

\* UserService.updateUser
SvcUpdateUser(userId, role, active, perms) ==
    LET userIndex == FindIndex(users, LAMBDA u : u.id = userId) IN
    IF ~hasPermission("canManageUsers")
    THEN /\ uret' = URet("updateUser", "result", FALSE, MsgDenied)
         /\ UNCHANGED <<users, currentUser, nextOid>>
    ELSE IF userIndex = 0
    THEN /\ uret' = URet("updateUser", "result", FALSE, MsgUserNotFound)
         /\ UNCHANGED <<users, currentUser, nextOid>>
    ELSE /\ users' = [users EXCEPT ![userIndex] = UpdatedUser(@, role, active, perms)]
         /\ uret' = URet("updateUser", "result", TRUE, "")
         /\ UNCHANGED <<currentUser, nextOid>>

\* deleteUser without the test that keeps the caller from deleting its own user
SvcDeleteUser_NoOwnUserTest(userId) ==
    LET userIndex == FindIndex(users, LAMBDA u : u.id = userId) IN
    IF ~hasPermission("canManageUsers")
    THEN /\ uret' = URet("deleteUser", "result", FALSE, MsgDenied)
         /\ UNCHANGED <<users, currentUser, nextOid>>
    ELSE IF userIndex = 0
    THEN /\ uret' = URet("deleteUser", "result", FALSE, MsgUserNotFound)
         /\ UNCHANGED <<users, currentUser, nextOid>>
    ELSE /\ users' = RemoveAt(users, userIndex)
         /\ uret' = URet("deleteUser", "result", TRUE, "")
         /\ UNCHANGED <<currentUser, nextOid>>

\* UserService.deleteUser
SvcDeleteUser(userId) ==
    LET userIndex == FindIndex(users, LAMBDA u : u.id = userId) IN
    IF ~hasPermission("canManageUsers")
    THEN /\ uret' = URet("deleteUser", "result", FALSE, MsgDenied)
         /\ UNCHANGED <<users, currentUser, nextOid>>
    ELSE IF UserByOid(currentUser).id = userId
    THEN /\ uret' = URet("deleteUser", "result", FALSE, MsgOwnUser)
         /\ UNCHANGED <<users, currentUser, nextOid>>
    ELSE IF userIndex = 0
    THEN /\ uret' = URet("deleteUser", "result", FALSE, MsgUserNotFound)
         /\ UNCHANGED <<users, currentUser, nextOid>>
    ELSE /\ users' = RemoveAt(users, userIndex)
         /\ uret' = URet("deleteUser", "result", TRUE, "")
         /\ UNCHANGED <<currentUser, nextOid>>

\* UserService.getUserActivity: throws when the permission is missing
SvcGetUserActivity ==
    /\ uret' = IF ~hasPermission("canViewLogs")
               THEN URet("getUserActivity", "throw", FALSE, MsgDenied)
               ELSE URet("getUserActivity", "value", TRUE, "")
    /\ UNCHANGED <<users, currentUser, nextOid>>

\* login that finds the user by email alone, active or not
SvcLogin_IgnoresActive(email, password) ==
    LET idx == FindIndex(users, LAMBDA u : u.email = email) IN
    IF idx = 0
    THEN /\ uret' = URet("login", "result", FALSE, MsgNotFoundOrInactive)
         /\ UNCHANGED <<users, currentUser, nextOid>>
    ELSE IF \/ (users[idx].email = AdminEmail /\ password # AdminPassword)
            \/ (users[idx].email # AdminEmail /\ PasswordLength(password) < 3)
    THEN /\ uret' = URet("login", "result", FALSE, MsgBadPassword)
         /\ UNCHANGED <<users, currentUser, nextOid>>
    ELSE /\ currentUser' = users[idx].oid
         /\ uret' = URet("login", "result", TRUE, "")
         /\ UNCHANGED <<users, nextOid>>

\* UserService.login
SvcLogin(email, password) ==
    LET idx == FindIndex(users, LAMBDA u : u.email = email /\ u.isActive) IN
    IF idx = 0
    THEN /\ uret' = URet("login", "result", FALSE, MsgNotFoundOrInactive)
         /\ UNCHANGED <<users, currentUser, nextOid>>
    ELSE IF \/ (users[idx].email = AdminEmail /\ password # AdminPassword)
            \/ (users[idx].email # AdminEmail /\ PasswordLength(password) < 3)
    THEN /\ uret' = URet("login", "result", FALSE, MsgBadPassword)
         /\ UNCHANGED <<users, currentUser, nextOid>>
    ELSE /\ currentUser' = users[idx].oid
         /\ uret' = URet("login", "result", TRUE, "")
         /\ UNCHANGED <<users, nextOid>>

\* UserService.updateProfile (name and avatar are not part of the model's user
\* record): currentUser becomes the first user of the list that has its id
SvcUpdateProfile ==
    IF currentUser = 0
    THEN /\ uret' = URet("updateProfile", "result", FALSE, MsgNotAuth)
         /\ UNCHANGED <<users, currentUser, nextOid>>
    ELSE LET userIndex == FindIndex(users, LAMBDA u : u.id = UserByOid(currentUser).id) IN
         IF userIndex = 0
         THEN /\ uret' = URet("updateProfile", "result", FALSE, MsgUserNotFound)
              /\ UNCHANGED <<users, currentUser, nextOid>>
         ELSE /\ currentUser' = users[userIndex].oid
              /\ uret' = URet("updateProfile", "result", TRUE, "")
              /\ UNCHANGED <<users, nextOid>>

---------------------------------------------------------------------------
\* UserService methods called on the service alone: the store plays no part

storeUserVars == <<storeCurrentUser, isAuthenticated, storeUsers, storeAliased>>

ServiceLogin(email, password) ==
    /\ UNCHANGED <<notifVars, backupVars, updates, storeUserVars, extraVars>>
    /\ SvcLogin(email, password)

\* UserService.logout
ServiceLogout ==
    /\ UNCHANGED <<notifVars, backupVars, updates, storeUserVars, extraVars>>
    /\ currentUser' = 0
    /\ uret' = URet("logout", "value", TRUE, "")
    /\ UNCHANGED <<users, nextOid>>

ServiceGetAllUsers ==
    /\ UNCHANGED <<notifVars, backupVars, updates, storeUserVars, extraVars>>
    /\ SvcGetAllUsers

ServiceCreateUser(email, role) ==
    /\ UNCHANGED <<notifVars, backupVars, updates, storeUserVars, extraVars>>
    /\ (hasPermission("canManageUsers") /\ \A i \in 1..Len(users) : users[i].email # email)
          => nextOid < 3 + MaxCreated
    /\ SvcCreateUser(email, role)

ServiceUpdateUser(userId, role, active, perms) ==
    /\ UNCHANGED <<notifVars, backupVars, storeUserVars, extraVars>>
    /\ updates < MaxUpdates
    /\ SvcUpdateUser(userId, role, active, perms)
    /\ updates' = IF uret'.success THEN updates + 1 ELSE updates

ServiceDeleteUser(userId) ==
    /\ UNCHANGED <<notifVars, backupVars, updates, storeUserVars, extraVars>>
    /\ SvcDeleteUser(userId)

ServiceGetUserActivity ==
    /\ UNCHANGED <<notifVars, backupVars, updates, storeUserVars, extraVars>>
    /\ SvcGetUserActivity

ServiceUpdateProfile ==
    /\ UNCHANGED <<notifVars, backupVars, updates, storeUserVars, extraVars>>
    /\ SvcUpdateProfile

MaxCreatedByAdmin == 2    \* users created in a run of createUser and deleteUser

\* UserService.createUser called by the logged-in admin, in a run of createUser and
\* deleteUser calls
AdminCreateUser(email, role) ==
    /\ UNCHANGED <<notifVars, backupVars, updates, storeUserVars, extraVars>>
    /\ hasPermission("canManageUsers")
    /\ (\A i \in 1..Len(users) : users[i].email # email)
          => nextOid < 3 + MaxCreatedByAdmin
    /\ SvcCreateUser(email, role)

\* The ids deleteUser is called with in such a run
AdminUserIds == 1..(2 + MaxCreatedByAdmin)

AdminNext ==
    \/ \E e \in Emails, p \in Passwords : ServiceLogin(e, p)
    \/ \E e \in Emails, r \in RoleInputs : AdminCreateUser(e, r)
    \/ \E id \in AdminUserIds : ServiceDeleteUser(id)

---------------------------------------------------------------------------
\* useUserStore actions: each calls the service method and then updates the store

\* useUserStore.login
Login(email, password) ==
    /\ UNCHANGED <<notifVars, backupVars, updates, extraVars>>
    /\ SvcLogin(email, password)
    /\ IF uret'.success
       THEN storeCurrentUser' = currentUser' /\ isAuthenticated' = TRUE
       ELSE UNCHANGED <<storeCurrentUser, isAuthenticated>>
    /\ UNCHANGED <<storeUsers, storeAliased>>

\* useUserStore.logout (UserService.logout sets currentUser to null)
Logout ==
    /\ UNCHANGED <<notifVars, backupVars, updates, extraVars>>
    /\ currentUser' = 0
    /\ uret' = URet("logout", "value", TRUE, "")
    /\ storeCurrentUser' = 0
    /\ isAuthenticated' = FALSE
    /\ storeUsers' = <<>>
    /\ storeAliased' = FALSE
    /\ UNCHANGED <<users, nextOid>>

\* useUserStore.loadUsers: set({users}) keeps the array getAllUsers returned, which is
\* UserService.users itself; a rejection is caught and only logged
LoadUsers ==
    /\ UNCHANGED <<notifVars, backupVars, updates, extraVars>>
    /\ SvcGetAllUsers
    /\ IF uret'.kind = "value"
       THEN storeUsers' = Oids(users) /\ storeAliased' = TRUE
       ELSE UNCHANGED <<storeUsers, storeAliased>>
    /\ UNCHANGED <<storeCurrentUser, isAuthenticated>>

\* useUserStore.createUser
CreateUser(email, role) ==
    /\ UNCHANGED <<notifVars, backupVars, updates, extraVars>>
    /\ (hasPermission("canManageUsers") /\ \A i \in 1..Len(users) : users[i].email # email)
          => nextOid < 3 + MaxCreated
    /\ SvcCreateUser(email, role)
    /\ IF uret'.success
       THEN /\ storeUsers' = Append(StoreUsersView(users'), nextOid)
            /\ storeAliased' = FALSE
       ELSE /\ storeUsers' = StoreUsersView(users')
            /\ UNCHANGED storeAliased
    /\ UNCHANGED <<storeCurrentUser, isAuthenticated>>

\* useUserStore.updateUser
UpdateUser(userId, role, active, perms) ==
    /\ UNCHANGED <<notifVars, backupVars, extraVars>>
    /\ updates < MaxUpdates
    /\ SvcUpdateUser(userId, role, active, perms)
    /\ updates' = IF uret'.success THEN updates + 1 ELSE updates
    /\ IF uret'.success
       THEN LET view == StoreUsersView(users')
                updated == users'[FindIndex(users', LAMBDA u : u.id = userId)].oid
            IN  /\ storeUsers' = [ i \in 1..Len(view) |->
                       IF UserByOid(view[i]).id = userId
                       THEN updated ELSE view[i] ]
                /\ storeAliased' = FALSE
       ELSE /\ storeUsers' = StoreUsersView(users')
            /\ UNCHANGED storeAliased
    /\ UNCHANGED <<storeCurrentUser, isAuthenticated>>

\* useUserStore.deleteUser
DeleteUser(userId) ==
    /\ UNCHANGED <<notifVars, backupVars, updates, extraVars>>
    /\ SvcDeleteUser(userId)
    /\ IF uret'.success
       THEN /\ storeUsers' = SelectSeq(StoreUsersView(users'),
                   LAMBDA o : UserByOid(o).id # userId)
            /\ storeAliased' = FALSE
       ELSE /\ storeUsers' = StoreUsersView(users')
            /\ UNCHANGED storeAliased
    /\ UNCHANGED <<storeCurrentUser, isAuthenticated>>

\* UserService.getUserActivity, called directly (no store action wraps it)
GetUserActivity ==
    /\ UNCHANGED <<notifVars, backupVars, updates, extraVars>>
    /\ SvcGetUserActivity
    /\ UNCHANGED <<storeCurrentUser, isAuthenticated, storeUsers, storeAliased>>

\* useUserStore.updateProfile
UpdateProfile ==
    /\ UNCHANGED <<notifVars, backupVars, updates, extraVars>>
    /\ SvcUpdateProfile
    /\ IF uret'.success
       THEN storeCurrentUser' = currentUser'
       ELSE UNCHANGED storeCurrentUser
    /\ UNCHANGED <<isAuthenticated, storeUsers, storeAliased>>

\* The page is reloaded: the module of UserService is evaluated again, so its users
\* are the initial ones and its currentUser is null, while persist rehydrates the
\* store with the currentUser and isAuthenticated it had saved (partialize); users is
\* not persisted. Only the user service and its store have left their initial state
\* where this action is taken.
Reload ==
    /\ UNCHANGED <<notifVars, backupVars, updates, extraVars>>
    /\ users' = InitialUsers
    /\ currentUser' = 0
    /\ storeUsers' = <<>>
    /\ storeAliased' = FALSE
    /\ uret' = URet("reload", "value", TRUE, "")
    /\ UNCHANGED <<nextOid, storeCurrentUser, isAuthenticated>>

UserIds == 1..(2 + MaxCreated)

\* Logging in and out, the profile, the page reload, and updateUser
AuthNext ==
    \/ \E e \in Emails, p \in Passwords : Login(e, p)
    \/ Logout
    \/ UpdateProfile
    \/ Reload
    \/ \E id \in UserIds, r \in RoleInputs \cup {NoUpdate},
          a \in ActiveInputs, p \in PermissionInputs : UpdateUser(id, r, a, p)

UserServiceNext ==
    \/ \E e \in Emails, p \in Passwords : ServiceLogin(e, p)
    \/ ServiceLogout
    \/ ServiceGetAllUsers
    \/ \E e \in Emails, r \in RoleInputs : ServiceCreateUser(e, r)
    \/ \E id \in UserIds, r \in RoleInputs \cup {NoUpdate},
          a \in ActiveInputs, p \in PermissionInputs : ServiceUpdateUser(id, r, a, p)
    \/ \E id \in UserIds : ServiceDeleteUser(id)
    \/ ServiceGetUserActivity
    \/ ServiceUpdateProfile

UserNext ==
    \/ \E e \in Emails, p \in Passwords : Login(e, p)
    \/ Logout
    \/ LoadUsers
    \/ \E e \in Emails, r \in RoleInputs : CreateUser(e, r)
    \/ \E id \in UserIds, r \in RoleInputs \cup {NoUpdate},
          a \in ActiveInputs, p \in PermissionInputs : UpdateUser(id, r, a, p)
    \/ \E id \in UserIds : DeleteUser(id)
    \/ GetUserActivity
    \/ UpdateProfile

(***************************************************************************)
(*                          NOTIFICATION SERVICE                           *)
(***************************************************************************)

MaxNotifs == 3            \* ids generated in a run of the service alone
StoreMaxNotifs == 2       \* ids generated in a run of the store with the service

\* The retained-list limit (1000 in addNotification) and queue.maxSize (100), scaled
\* down so that a run can reach them; the code compares and slices with the same
\* number, so only the size of the lists changes.
NotificationLimit == 2
QueueMaxSize == 2
MaxToasts == 5            \* useNotificationStore.maxToasts

Categories == { "order", "backup" }
EventTypes == { "new_order", "backup_completed", "unknown_event" }

\* initializeDefaultTemplates: the category of the active template of an event type
HasTemplate(type) == type \in { "new_order", "backup_completed" }
TemplateCategory(type) == IF type = "new_order" THEN "order" ELSE "backup"

\* The instants at which something happens, as minutes of the day (getHours() * 60 +
\* getMinutes()): 22:00 and 08:01 of the next day. A notification's timestamp
\* is the index of the instant it was created at.
Instants == << 1320, 481 >>
QuietStart == 1320        \* quietHours.start '22:00'
QuietEnd == 480           \* quietHours.end '08:00'

\* createDefaultSettings
DefaultSettings ==
    [ categories |-> [ c \in Categories |-> TRUE ],
      quietHours |-> [ enabled |-> FALSE, start |-> QuietStart, end |-> QuietEnd ] ]

\* localStorage before the first saveData: getItem returns null for both keys
NoItem == [ written |-> FALSE, notifications |-> <<>>, settings |-> DefaultSettings ]

\* What an operation returned and the listener calls it made, and whether
\* useNotificationStore.loadNotifications has run since the page was loaded
NRet(op, id, notified) ==
    [ op |-> op, id |-> id, notified |-> notified,
      loaded |-> (nret.loaded \/ op = "loadNotifications") ]

Ids(s) == { s[i].id : i \in 1..Len(s) }

\* NotificationService.isQuietHours
isQuietHours ==
    LET currentTime == Instants[clock]
        startTime == settings.quietHours.start
        endTime == settings.quietHours.end
    IN  IF ~settings.quietHours.enabled THEN FALSE
        ELSE IF startTime <= endTime
             THEN currentTime >= startTime /\ currentTime <= endTime
             ELSE currentTime >= startTime \/ currentTime <= endTime

\* settings?.categories[category]?.enabled
CategoryEnabled(category) ==
    category \in DOMAIN settings.categories /\ settings.categories[category]

\* this.notifications.slice(0, 1000) when the list is longer than the limit
LimitList(s) == IF Len(s) > NotificationLimit THEN SubSeq(s, 1, NotificationLimit) ELSE s

\* NotificationService.saveData
SaveData(ns, st) == [ written |-> TRUE, notifications |-> ns, settings |-> st ]

\* [...notifications].sort((a, b) => b.timestamp - a.timestamp): stable, newest first
RECURSIVE SortNewestFirst(_)
SortNewestFirst(s) ==
    IF s = <<>> THEN <<>>
    ELSE LET x == Head(s)
             rest == SortNewestFirst(Tail(s))
             k == Cardinality({ i \in 1..Len(rest) : rest[i].timestamp > x.timestamp })
         IN  SubSeq(rest, 1, k) \o <<x>> \o SubSeq(rest, k + 1, Len(rest))

\* getNotifications(1): the newest notification only
getNotifications_Limited(ns) ==
    LET sorted == SortNewestFirst(ns)
    IN  [ i \in 1..(IF sorted = <<>> THEN 0 ELSE 1) |->
            [ id |-> sorted[i].id, timestamp |-> sorted[i].timestamp,
              read |-> sorted[i].read, shared |-> TRUE ] ]

\* NotificationService.getNotifications, as the store keeps it: the array is new, the
\* notification objects are the service's own (shared)
getNotifications(ns) ==
    LET sorted == SortNewestFirst(ns)
    IN  [ i \in 1..Len(sorted) |->
            [ id |-> sorted[i].id, timestamp |-> sorted[i].timestamp,
              read |-> sorted[i].read, shared |-> TRUE ] ]

\* NotificationService.getUnreadNotifications().length
UnreadOf(ns) == Cardinality({ i \in 1..Len(ns) : ~ns[i].read })

\* useNotificationStore.showToast
showToast(id, toasts) ==
    LET newToasts == <<id>> \o toasts
    IN  IF Len(newToasts) > MaxToasts THEN SubSeq(newToasts, 1, MaxToasts) ELSE newToasts

\* The store's view of a notification object after the service wrote its read flag:
\* entries that are the service's own object show the new flag, copies do not
SeeReadFlags(sn, ns) ==
    [ i \in 1..Len(sn) |->
        IF sn[i].shared /\ \E j \in 1..Len(ns) : ns[j].id = sn[i].id /\ ns[j].read
        THEN [ sn[i] EXCEPT !.read = TRUE ]
        ELSE sn[i] ]

\* addNotification without the quiet-hours check
SvcAddNotification_IgnoresQuietHours(category) ==
    LET fullNotification == [ id |-> nextNid, timestamp |-> clock, read |-> FALSE ]
    IN  /\ nextNid' = nextNid + 1
        /\ IF ~CategoryEnabled(category)
           THEN /\ nret' = NRet("addNotification", nextNid, <<>>)
                /\ UNCHANGED <<notifications, queue, stored>>
           ELSE /\ notifications' = LimitList(<<fullNotification>> \o notifications)
                /\ stored' = SaveData(notifications', settings)
                /\ nret' = NRet("addNotification", nextNid, <<nextNid>>)
                /\ UNCHANGED queue

\* addNotification without the category check
SvcAddNotification_IgnoresCategory(category) ==
    LET fullNotification == [ id |-> nextNid, timestamp |-> clock, read |-> FALSE ]
    IN  /\ nextNid' = nextNid + 1
        /\ IF isQuietHours
           THEN /\ queue' = Append(queue, fullNotification)
                /\ nret' = NRet("addNotification", nextNid, <<>>)
                /\ UNCHANGED <<notifications, stored>>
           ELSE /\ notifications' = LimitList(<<fullNotification>> \o notifications)
                /\ stored' = SaveData(notifications', settings)
                /\ nret' = NRet("addNotification", nextNid, <<nextNid>>)
                /\ UNCHANGED queue

\* NotificationService.addNotification
SvcAddNotification(category) ==
    \* the title, message, type, priority and category of the notification are not
    \* read again by any operation of the model and are left out of its record
    LET fullNotification == [ id |-> nextNid, timestamp |-> clock, read |-> FALSE ]
    IN  /\ nextNid' = nextNid + 1
        /\ IF ~CategoryEnabled(category)
           THEN /\ nret' = NRet("addNotification", nextNid, <<>>)
                /\ UNCHANGED <<notifications, queue, stored>>
           ELSE IF isQuietHours
           THEN /\ queue' = Append(queue, fullNotification)
                /\ nret' = NRet("addNotification", nextNid, <<>>)
                /\ UNCHANGED <<notifications, stored>>
           ELSE /\ notifications' = LimitList(<<fullNotification>> \o notifications)
                /\ stored' = SaveData(notifications', settings)
                /\ nret' = NRet("addNotification", nextNid, <<nextNid>>)
                /\ UNCHANGED queue

\* NotificationService.markAsRead
SvcMarkAsRead(notificationId) ==
    LET idx == FindIndex(notifications, LAMBDA n : n.id = notificationId) IN
    IF idx # 0 /\ ~notifications[idx].read
    THEN /\ notifications' = [ notifications EXCEPT ![idx].read = TRUE ]
         /\ stored' = SaveData(notifications', settings)
    ELSE UNCHANGED <<notifications, stored>>

\* markAllAsRead that marks only the newest notification
SvcMarkAllAsRead_OnlyFirst ==
    /\ notifications' = [ i \in 1..Len(notifications) |->
                            IF i = 1 THEN [ notifications[i] EXCEPT !.read = TRUE ]
                            ELSE notifications[i] ]
    /\ stored' = SaveData(notifications', settings)

\* NotificationService.markAllAsRead
SvcMarkAllAsRead ==
    /\ notifications' = [ i \in 1..Len(notifications) |->
                            [ notifications[i] EXCEPT !.read = TRUE ] ]
    /\ stored' = SaveData(notifications', settings)

\* NotificationService.deleteNotification
SvcDeleteNotification(notificationId) ==
    LET index == FindIndex(notifications, LAMBDA n : n.id = notificationId) IN
    IF index # 0
    THEN /\ notifications' = RemoveAt(notifications, index)
         /\ stored' = SaveData(notifications', settings)
    ELSE UNCHANGED <<notifications, stored>>

\* The notification list after processQueue unshifted the first k queued notifications
RECURSIVE UnshiftAll(_, _)
UnshiftAll(q, ns) == IF q = <<>> THEN ns ELSE UnshiftAll(Tail(q), <<Head(q)>> \o ns)

\* The toasts after the subscribed callback ran for each notification of q in turn
RECURSIVE ToastAll(_, _)
ToastAll(q, toasts) ==
    IF q = <<>> THEN toasts ELSE ToastAll(Tail(q), showToast(Head(q).id, toasts))

\* NotificationService.processQueue
SvcProcessQueue ==
    /\ queue' = <<>>
    /\ notifications' = UnshiftAll(queue, notifications)
    /\ stored' = SaveData(notifications', settings)
    /\ nret' = NRet("processQueue", 0, [ i \in 1..Len(queue) |-> queue[i].id ])

\* NotificationService.clearAll
SvcClearAll ==
    /\ notifications' = <<>>
    /\ stored' = SaveData(notifications', settings)

\* NotificationService.handleRealtimeEvent
SvcHandleRealtimeEvent(type) ==
    IF ~HasTemplate(type)
    THEN /\ nret' = NRet("realtimeEvent", 0, <<>>)
         /\ UNCHANGED <<notifications, queue, stored, nextNid>>
    ELSE SvcAddNotification(TemplateCategory(type))

---------------------------------------------------------------------------
\* The service on its own: its public methods and the real-time feed, with the
\* listener calls recorded in nret.notified and no store attached

storeNotifVars == <<sNotifications, unreadCount, activeToasts>>

ServiceAddNotification(category) ==
    /\ UNCHANGED <<userVars, backupVars, storeNotifVars, settings, clock, extraVars>>
    /\ nextNid <= MaxNotifs
    /\ SvcAddNotification(category)

ServiceRealtimeEvent(type) ==
    /\ UNCHANGED <<userVars, backupVars, storeNotifVars, settings, clock, extraVars>>
    /\ nextNid <= MaxNotifs
    /\ SvcHandleRealtimeEvent(type)

ServiceProcessQueue ==
    /\ UNCHANGED <<userVars, backupVars, storeNotifVars, settings, nextNid, clock, extraVars>>
    /\ SvcProcessQueue

ServiceMarkAsRead(notificationId) ==
    /\ UNCHANGED <<userVars, backupVars, storeNotifVars, queue, settings, nextNid, clock, extraVars>>
    /\ SvcMarkAsRead(notificationId)
    /\ nret' = NRet("markAsRead", 0, <<>>)

ServiceMarkAllAsRead ==
    /\ UNCHANGED <<userVars, backupVars, storeNotifVars, queue, settings, nextNid, clock, extraVars>>
    /\ SvcMarkAllAsRead
    /\ nret' = NRet("markAllAsRead", 0, <<>>)

ServiceDeleteNotification(notificationId) ==
    /\ UNCHANGED <<userVars, backupVars, storeNotifVars, queue, settings, nextNid, clock, extraVars>>
    /\ SvcDeleteNotification(notificationId)
    /\ nret' = NRet("deleteNotification", 0, <<>>)

ServiceClearAll ==
    /\ UNCHANGED <<userVars, backupVars, storeNotifVars, queue, settings, nextNid, clock, extraVars>>
    /\ SvcClearAll
    /\ nret' = NRet("clearAll", 0, <<>>)

---------------------------------------------------------------------------
\* The store with the service: the store's actions, the real-time feed and
\* processQueue with the store's subscribed callback, and the clock

\* useNotificationStore.loadNotifications
LoadNotifications ==
    /\ UNCHANGED <<userVars, backupVars, extraVars>>
    /\ sNotifications' = getNotifications(notifications)
    /\ unreadCount' = UnreadOf(notifications)
    /\ nret' = NRet("loadNotifications", 0, <<>>)
    /\ UNCHANGED <<notifications, queue, settings, stored, nextNid, clock,
                   activeToasts>>

\* useNotificationStore.addNotification; when the service delivers the notification, the
\* subscribed callback runs first (it refreshes the store and shows a toast)
AddNotification(category) ==
    /\ UNCHANGED <<userVars, backupVars, extraVars>>
    /\ nextNid <= StoreMaxNotifs
    /\ SvcAddNotification(category)
    /\ LET id == nret'.id
           afterCallback == IF nret'.notified # <<>>
                            THEN showToast(id, activeToasts) ELSE activeToasts
       IN  /\ sNotifications' = getNotifications(notifications')
           /\ unreadCount' = UnreadOf(notifications')
           /\ activeToasts' = IF id \in Ids(notifications')
                              THEN showToast(id, afterCallback) ELSE afterCallback
    /\ UNCHANGED <<settings, clock>>

\* simulateEvent / handleRealtimeEvent: an event of the real-time feed
RealtimeEvent(type) ==
    /\ UNCHANGED <<userVars, backupVars, extraVars>>
    /\ nextNid <= StoreMaxNotifs
    /\ SvcHandleRealtimeEvent(type)
    /\ IF nret'.notified # <<>>
       THEN /\ sNotifications' = getNotifications(notifications')
            /\ unreadCount' = UnreadOf(notifications')
            /\ activeToasts' = showToast(nret'.id, activeToasts)
       ELSE UNCHANGED <<sNotifications, unreadCount, activeToasts>>
    /\ UNCHANGED <<settings, clock>>

\* NotificationService.processQueue, with the subscribed callback run per notification
ProcessQueue ==
    /\ UNCHANGED <<userVars, backupVars, extraVars>>
    /\ SvcProcessQueue
    /\ IF queue # <<>>
       THEN /\ sNotifications' = getNotifications(notifications')
            /\ unreadCount' = UnreadOf(notifications')
            /\ activeToasts' = ToastAll(queue, activeToasts)
       ELSE UNCHANGED <<sNotifications, unreadCount, activeToasts>>
    /\ UNCHANGED <<settings, nextNid, clock>>

\* useNotificationStore.markAsRead
MarkAsRead(notificationId) ==
    /\ UNCHANGED <<userVars, backupVars, extraVars>>
    /\ SvcMarkAsRead(notificationId)
    /\ nret' = NRet("markAsRead", 0, <<>>)
    /\ LET seen == SeeReadFlags(sNotifications, notifications')
           updatedNotifications ==
               [ i \in 1..Len(seen) |->
                   IF seen[i].id = notificationId
                   THEN [ seen[i] EXCEPT !.read = TRUE, !.shared = FALSE ]
                   ELSE seen[i] ]
       IN  /\ sNotifications' = updatedNotifications
           /\ unreadCount' = UnreadOf(updatedNotifications)
    /\ UNCHANGED <<queue, settings, nextNid, clock, activeToasts>>

\* useNotificationStore.markAllAsRead
MarkAllAsRead ==
    /\ UNCHANGED <<userVars, backupVars, extraVars>>
    /\ SvcMarkAllAsRead
    /\ nret' = NRet("markAllAsRead", 0, <<>>)
    /\ sNotifications' = [ i \in 1..Len(sNotifications) |->
                             [ sNotifications[i] EXCEPT !.read = TRUE, !.shared = FALSE ] ]
    /\ unreadCount' = 0
    /\ UNCHANGED <<queue, settings, nextNid, clock, activeToasts>>

\* useNotificationStore.hideToast (a dismissed toast, or the autoClose timer firing)
HideToast(notificationId) ==
    /\ UNCHANGED <<userVars, backupVars, extraVars>>
    /\ notificationId \in Range(activeToasts)
    /\ activeToasts' = SelectSeq(activeToasts, LAMBDA t : t # notificationId)
    /\ nret' = NRet("other", 0, <<>>)
    /\ UNCHANGED <<notifications, queue, settings, stored, nextNid, clock,
                   sNotifications, unreadCount>>

\* useNotificationStore.deleteNotification
DeleteNotification(notificationId) ==
    /\ UNCHANGED <<userVars, backupVars, extraVars>>
    /\ SvcDeleteNotification(notificationId)
    /\ nret' = NRet("deleteNotification", 0, <<>>)
    /\ LET updatedNotifications ==
               SelectSeq(sNotifications, LAMBDA n : n.id # notificationId)
       IN  /\ sNotifications' = updatedNotifications
           /\ unreadCount' = UnreadOf(updatedNotifications)
    /\ activeToasts' = SelectSeq(activeToasts, LAMBDA t : t # notificationId)
    /\ UNCHANGED <<queue, settings, nextNid, clock>>

\* useNotificationStore.clearAll
ClearAll ==
    /\ UNCHANGED <<userVars, backupVars, extraVars>>
    /\ SvcClearAll
    /\ nret' = NRet("clearAll", 0, <<>>)
    /\ sNotifications' = <<>>
    /\ unreadCount' = 0
    /\ activeToasts' = <<>>
    /\ UNCHANGED <<queue, settings, nextNid, clock>>

\* useNotificationStore.updateSettings -> NotificationService.updateSettings, with a
\* new toggle for one category
SetCategoryEnabled(category, enabled) ==
    /\ UNCHANGED <<userVars, backupVars, extraVars>>
    /\ settings' = [ settings EXCEPT !.categories[category] = enabled ]
    /\ stored' = SaveData(notifications, settings')
    /\ nret' = NRet("other", 0, <<>>)
    /\ UNCHANGED <<notifications, queue, nextNid, clock, sNotifications,
                   unreadCount, activeToasts>>

\* updateSettings with a new quietHours.enabled
SetQuietHoursEnabled(enabled) ==
    /\ UNCHANGED <<userVars, backupVars, extraVars>>
    /\ settings' = [ settings EXCEPT !.quietHours.enabled = enabled ]
    /\ stored' = SaveData(notifications, settings')
    /\ nret' = NRet("other", 0, <<>>)
    /\ UNCHANGED <<notifications, queue, nextNid, clock, sNotifications,
                   unreadCount, activeToasts>>

\* Time passes to the next instant
Tick ==
    /\ UNCHANGED <<userVars, backupVars, extraVars>>
    /\ clock < Len(Instants)
    /\ clock' = clock + 1
    /\ nret' = NRet("other", 0, <<>>)
    /\ UNCHANGED <<notifications, queue, settings, stored, nextNid,
                   sNotifications, unreadCount, activeToasts>>

\* The page is loaded again: the service is constructed anew and loadData reads the
\* notifications and the settings saveData wrote (timestamps through their ISO
\* strings), the queue and the store start empty
NotifReload ==
    /\ UNCHANGED <<userVars, backupVars, extraVars>>
    /\ notifications' = stored.notifications
    /\ settings' = stored.settings
    /\ queue' = <<>>
    /\ sNotifications' = <<>>
    /\ unreadCount' = 0
    /\ activeToasts' = <<>>
    /\ nret' = [ op |-> "reload", id |-> 0, notified |-> <<>>, loaded |-> FALSE ]
    /\ UNCHANGED <<stored, nextNid, clock>>

NotifIds == 1..MaxNotifs

NotifInit ==
    /\ notifications = <<>>
    /\ queue = <<>>
    /\ settings = DefaultSettings
    /\ stored = NoItem
    /\ nextNid = 1
    /\ clock = 1
    /\ sNotifications = <<>>
    /\ unreadCount = 0
    /\ activeToasts = <<>>
    /\ nret = [ op |-> "init", id |-> 0, notified |-> <<>>, loaded |-> FALSE ]

NotifServiceNext ==
    \/ \E c \in Categories : ServiceAddNotification(c)
    \/ \E t \in EventTypes : ServiceRealtimeEvent(t)
    \/ ServiceProcessQueue
    \/ \E id \in NotifIds : ServiceMarkAsRead(id)
    \/ ServiceMarkAllAsRead
    \/ \E id \in NotifIds : ServiceDeleteNotification(id)
    \/ ServiceClearAll
    \/ \E c \in Categories, e \in BOOLEAN : SetCategoryEnabled(c, e)
    \/ \E e \in BOOLEAN : SetQuietHoursEnabled(e)
    \/ Tick

NotifNext ==
    \/ LoadNotifications
    \/ \E c \in Categories : AddNotification(c)
    \/ \E t \in EventTypes : RealtimeEvent(t)
    \/ ProcessQueue
    \/ \E id \in NotifIds : MarkAsRead(id)
    \/ MarkAllAsRead
    \/ \E id \in NotifIds : HideToast(id)
    \/ \E id \in NotifIds : DeleteNotification(id)
    \/ ClearAll
    \/ \E c \in Categories, e \in BOOLEAN : SetCategoryEnabled(c, e)
    \/ \E e \in BOOLEAN : SetQuietHoursEnabled(e)
    \/ Tick

\* The store with the service over several page loads
SyncNext ==
    \/ NotifNext
    \/ NotifReload

(***************************************************************************)
(*                             BACKUP SERVICE                              *)
(***************************************************************************)

MaxBackups == 2           \* at most this many backups are created in a run

RetentionDays == 30       \* cleanupOldBackups: retentionDays
ProgressStep == 20        \* createBackup: progress += 20
ProgressEnd == 100        \* createBackup: progress <= 100

\* The days on which something happens; a backup's createdAt is the day it was
\* created on. Day 30 is the last day a backup of day 0 is retained.
Days == << 0, 30, 31 >>

MsgBackupError    == "Erro ao criar backup"
MsgBackupNotFound == "Backup nao encontrado"
MsgDeleteError    == "Erro ao excluir backup"

BRet(op, kind, success, message, id) ==
    [ op |-> op, kind |-> kind, success |-> success, message |-> message, id |-> id ]

\* The BackupItem createBackup builds (name, type, size, userId and description are
\* not read by any operation of the model and are left out)
NewBackup ==
    [ status |-> "running", progress |-> 0, createdAt |-> Days[day],
      downloadUrl |-> FALSE, completedAt |-> FALSE ]

\* BackupService.saveData writes both lists to localStorage, which the service reads
\* only in its constructor: the model keeps whether the write succeeded (setItem throws
\* when the quota is exceeded), not what was written.
StorageOutcomes == { "ok", "throws" }

\* The catch block of createBackup: the backup, if still listed, becomes failed and is
\* saved; a saveData that throws here rejects the promise createBackup returned
CreateBackupCatch(backupId, list, objects, save) ==
    IF backupId \in Range(list)
    THEN /\ heap' = [ objects EXCEPT ![backupId].status = "failed" ]
         /\ bret' = IF save = "ok"
                    THEN BRet("createBackup", "result", FALSE, MsgBackupError, backupId)
                    ELSE BRet("createBackup", "throw", FALSE, "", backupId)
    ELSE /\ heap' = objects
         /\ bret' = BRet("createBackup", "result", FALSE, MsgBackupError, backupId)

\* cleanupOldBackups with createdAt <= cutoffDate: a backup created exactly
\* retentionDays ago goes too
Retained_Inclusive(list, objects) ==
    SelectSeq(list, LAMBDA b : ~(objects[b].createdAt <= Days[day] - RetentionDays))

\* BackupService.cleanupOldBackups: the backups the filter keeps
Retained(list, objects) ==
    SelectSeq(list, LAMBDA b : ~(objects[b].createdAt < Days[day] - RetentionDays))

\* The object URLs cleanupOldBackups revokes
CleanupRevoked(list, objects) ==
    { b \in Range(list) :
        objects[b].createdAt < Days[day] - RetentionDays /\ objects[b].downloadUrl }

\* BackupService.createBackup, up to its first await: the backup is built, put at
\* the head of the list and saved, and collectBackupData is called
SvcCreateBackupStart(save, catchSave) ==
    LET backupId == nextBid
        objects == Append(heap, NewBackup)
        list == <<backupId>> \o backups
    IN  /\ nextBid' = nextBid + 1
        /\ backups' = list
        /\ UNCHANGED revoked
        /\ IF save = "ok"
           THEN /\ heap' = objects
                /\ tasks' = tasks @@ (backupId :> [ pc |-> "collect", progress |-> 0 ])
                /\ UNCHANGED bret
           ELSE /\ CreateBackupCatch(backupId, list, objects, catchSave)
                /\ UNCHANGED tasks

Without(f, k) == [ x \in DOMAIN f \ {k} |-> f[x] ]

\* createBackup resumed after an await: the next iteration of the progress loop, or,
\* once the loop is over, the end of the method (the blob and its URL, the status,
\* saveData, cleanupOldBackups)
SvcCreateBackupStep(backupId, url, save, cleanupSave, catchSave) ==
    LET t == tasks[backupId]
        progress == IF t.pc = "collect" THEN 0 ELSE t.progress + ProgressStep
    IN  IF progress <= ProgressEnd
        THEN \* backup.progress = progress; saveData(); await the timeout
             LET objects == [ heap EXCEPT ![backupId].progress = progress ]
             IN  /\ UNCHANGED <<backups, revoked, nextBid>>
                 /\ IF save = "ok"
                    THEN /\ heap' = objects
                         /\ tasks' = [ tasks EXCEPT ![backupId] =
                                         [ pc |-> "sleep", progress |-> progress ] ]
                         /\ UNCHANGED bret
                    ELSE /\ CreateBackupCatch(backupId, backups, objects, catchSave)
                         /\ tasks' = Without(tasks, backupId)
        ELSE LET completed == [ heap EXCEPT ![backupId].status = "completed",
                                            ![backupId].completedAt = TRUE ]
                 withUrl == [ completed EXCEPT ![backupId].downloadUrl = TRUE,
                                               ![backupId].progress = ProgressEnd ]
             IN  /\ tasks' = Without(tasks, backupId)
                 /\ UNCHANGED nextBid
                 /\ IF url = "throws"
                    THEN /\ CreateBackupCatch(backupId, backups, completed, catchSave)
                         /\ UNCHANGED <<backups, revoked>>
                    ELSE IF save = "throws"
                    THEN /\ CreateBackupCatch(backupId, backups, withUrl, catchSave)
                         /\ UNCHANGED <<backups, revoked>>
                    ELSE /\ backups' = Retained(backups, withUrl)
                         /\ revoked' = revoked \cup CleanupRevoked(backups, withUrl)
                         /\ IF cleanupSave = "throws"
                            THEN CreateBackupCatch(backupId, backups', withUrl, catchSave)
                            ELSE /\ heap' = withUrl
                                 /\ bret' = BRet("createBackup", "result", TRUE, "",
                                                 backupId)

\* deleteBackup with splice(index) in place of splice(index, 1): every backup from
\* the one deleted to the end of the list goes
SvcDeleteBackup_SpliceToEnd(id, save) ==
    LET index == FindIndex(backups, LAMBDA b : b = id) IN
    IF index = 0
    THEN /\ bret' = BRet("deleteBackup", "result", FALSE, MsgBackupNotFound, id)
         /\ UNCHANGED <<backups, heap, revoked>>
    ELSE /\ revoked' = IF heap[id].downloadUrl THEN revoked \cup {id} ELSE revoked
         /\ backups' = SubSeq(backups, 1, index - 1)
         /\ bret' = IF save = "ok"
                    THEN BRet("deleteBackup", "result", TRUE, "", id)
                    ELSE BRet("deleteBackup", "result", FALSE, MsgDeleteError, id)
         /\ UNCHANGED heap

\* BackupService.deleteBackup
SvcDeleteBackup(id, save) ==
    LET index == FindIndex(backups, LAMBDA b : b = id) IN
    IF index = 0
    THEN /\ bret' = BRet("deleteBackup", "result", FALSE, MsgBackupNotFound, id)
         /\ UNCHANGED <<backups, heap, revoked>>
    ELSE /\ revoked' = IF heap[id].downloadUrl THEN revoked \cup {id} ELSE revoked
         /\ backups' = RemoveAt(backups, index)
         /\ bret' = IF save = "ok"
                    THEN BRet("deleteBackup", "result", TRUE, "", id)
                    ELSE BRet("deleteBackup", "result", FALSE, MsgDeleteError, id)
         /\ UNCHANGED heap

---------------------------------------------------------------------------
\* useBackupStore actions and the continuation of a createBackup in flight

\* useBackupStore.loadBackups: the store keeps a copy of the array; the objects in
\* it are the service's own
LoadBackups ==
    /\ UNCHANGED <<userVars, notifVars, extraVars>>
    /\ sBackups' = backups
    /\ UNCHANGED <<backups, heap, tasks, revoked, day, nextBid, bret>>

\* useBackupStore.createBackup, up to the first await of BackupService.createBackup
CreateBackupStart ==
    /\ UNCHANGED <<userVars, notifVars, extraVars>>
    /\ nextBid <= MaxBackups
    /\ \E save \in StorageOutcomes, catchSave \in StorageOutcomes :
         SvcCreateBackupStart(save, catchSave)
    /\ UNCHANGED <<day, sBackups>>

\* A createBackup in flight resumes after its await; when it settles with success, the
\* store reloads its list (loadBackups)
CreateBackupStep(backupId) ==
    /\ UNCHANGED <<userVars, notifVars, extraVars>>
    /\ backupId \in DOMAIN tasks
    /\ \E url \in StorageOutcomes, save \in StorageOutcomes,
          cleanupSave \in StorageOutcomes, catchSave \in StorageOutcomes :
         SvcCreateBackupStep(backupId, url, save, cleanupSave, catchSave)
    /\ sBackups' = IF backupId \notin DOMAIN tasks' /\ bret'.success
                   THEN backups' ELSE sBackups
    /\ UNCHANGED day

\* useBackupStore.deleteBackup
DeleteBackup(id) ==
    /\ UNCHANGED <<userVars, notifVars, extraVars>>
    /\ \E save \in StorageOutcomes : SvcDeleteBackup(id, save)
    /\ sBackups' = IF bret'.success
                   THEN SelectSeq(sBackups, LAMBDA b : b # id) ELSE sBackups
    /\ UNCHANGED <<tasks, day, nextBid>>

\* A day passes
DayPasses ==
    /\ UNCHANGED <<userVars, notifVars, extraVars>>
    /\ day < Len(Days)
    /\ day' = day + 1
    /\ UNCHANGED <<backups, heap, tasks, revoked, nextBid, sBackups, bret>>

BackupIds == 1..MaxBackups

BackupInit ==
    /\ backups = <<>>
    /\ heap = <<>>
    /\ tasks = <<>>
    /\ revoked = {}
    /\ day = 1
    /\ nextBid = 1
    /\ sBackups = <<>>
    /\ bret = BRet("init", "value", TRUE, "", 0)

BackupNext ==
    \/ LoadBackups
    \/ CreateBackupStart
    \/ \E id \in BackupIds : CreateBackupStep(id)
    \/ \E id \in BackupIds : DeleteBackup(id)
    \/ DayPasses

(***************************************************************************)
(*                 NOTIFICATION SERVICE: REAL-TIME CONNECTION              *)
(***************************************************************************)

MaxConnTime == 64         \* seconds of a run

MaxReconnectAttempts == 5 \* handleConnectionError: reconnectAttempts < 5

ConnectionOutcomes == { "ok", "throws" }

CRet(op, outcome) == [ op |-> op, outcome |-> outcome ]

\* the timer callback asks for one more attempt although five were made
ReconnectAllowed_Inclusive == reconnectAttempts <= MaxReconnectAttempts

\* The test of the setTimeout callback in handleConnectionError
ReconnectAllowed == reconnectAttempts < MaxReconnectAttempts

\* NotificationService.handleConnectionError: the attempt is counted and a timer set
\* for 2^reconnectAttempts seconds (the counter is read after the increment)
HandleConnectionError(attempts, timers) ==
    LET n == attempts + 1
        delay == 2^n
    IN  /\ connected' = FALSE
        /\ reconnectAttempts' = n
        /\ reconnectTimers' = Append(timers, [ delay |-> delay, due |-> connNow + delay ])

\* NotificationService.initializeRealTimeConnection: the try block either completes
\* (connected) or throws, and the catch calls handleConnectionError
InitializeRealTimeConnection(op, outcome, timers) ==
    /\ cret' = CRet(op, outcome)
    /\ IF outcome = "ok"
       THEN /\ connected' = TRUE
            /\ reconnectTimers' = timers
            /\ UNCHANGED reconnectAttempts
       ELSE HandleConnectionError(reconnectAttempts, timers)

\* The setTimeout callback of handleConnectionError runs: it reconnects while fewer
\* than five attempts were made
ReconnectTimerFires ==
    /\ UNCHANGED <<userVars, notifVars, backupVars, schedVars, analyticsVars, pct, restoreVars,
                   refreshVars, loadVars>>
    /\ reconnectTimers # <<>>
    /\ Head(reconnectTimers).due <= connNow
    /\ IF ReconnectAllowed
       THEN \E outcome \in ConnectionOutcomes :
              InitializeRealTimeConnection("reconnect", outcome, Tail(reconnectTimers))
       ELSE /\ cret' = CRet("giveUp", "ok")
            /\ reconnectTimers' = Tail(reconnectTimers)
            /\ UNCHANGED <<connected, reconnectAttempts>>
    /\ UNCHANGED connNow

\* A second passes
ConnTick ==
    /\ UNCHANGED <<userVars, notifVars, backupVars, schedVars, analyticsVars, pct, restoreVars,
                   refreshVars, loadVars>>
    /\ connNow < MaxConnTime
    /\ connNow' = connNow + 1
    /\ UNCHANGED <<connected, reconnectAttempts, reconnectTimers, cret>>

\* The connection as the constructor leaves it when its try block completes
ConnEstablished ==
    /\ connected = TRUE
    /\ reconnectAttempts = 0
    /\ reconnectTimers = <<>>
    /\ connNow = 0
    /\ cret = CRet("constructor", "ok")

\* The connection as the constructor leaves it: established, or failed once with the
\* first reconnect timer set
ConnInit ==
    \/ ConnEstablished
    \/ /\ connected = FALSE
       /\ reconnectAttempts = 1
       /\ reconnectTimers = << [ delay |-> 2, due |-> 2 ] >>
       /\ connNow = 0
       /\ cret = CRet("constructor", "throws")

ConnNext ==
    \/ ReconnectTimerFires
    \/ ConnTick

(***************************************************************************)
(*                        BACKUP SERVICE: SCHEDULER                        *)
(***************************************************************************)

MaxConfigObjects == 2     \* config objects built in a run (created or updated)
MaxPolls == 2             \* polls started in a run
MaxScheduled == 1         \* backups the scheduler starts in a run

NoDate == -1              \* an undefined lastRunAt / nextRunAt

Frequencies == { "manual", "daily", "weekly", "monthly" }
FrequencyInputs == { "manual", "daily", "monthly" }   \* frequencies drawn as inputs

\* Dates are day numbers, day 0 being 1 January: the length of the month a day is in
MonthLength(d) == IF d < 31 THEN 31 ELSE IF d < 59 THEN 28 ELSE 31

\* updateNextRunTime: setDate(getDate() + 1), setDate(getDate() + 7) and
\* setMonth(getMonth() + 1), which keeps the day of the month and lets the Date
\* overflow into the following month
NextRunDay(frequency, today) ==
    CASE frequency = "daily" -> today + 1
      [] frequency = "weekly" -> today + 7
      [] frequency = "monthly" -> today + MonthLength(today)

SRet(op, outcome, cid, ended, due, triggered) ==
    [ op |-> op, outcome |-> outcome, cid |-> cid, ended |-> ended,
      due |-> due, triggered |-> triggered ]

\* checkScheduledBackups: the test a config passes to be run
IsDue(c, now) == c.isEnabled /\ c.nextRunAt # NoDate /\ c.nextRunAt <= now

\* The for-of loop over this.configs, resumed at index idx of the live array: the
\* index of the next config to run, 0 when the loop ends
FirstDue(idx, now) ==
    IF \E i \in idx..Len(configs) : IsDue(cheap[configs[i]], now)
    THEN CHOOSE i \in idx..Len(configs) :
            /\ IsDue(cheap[configs[i]], now)
            /\ \A j \in idx..(i-1) : ~IsDue(cheap[configs[j]], now)
    ELSE 0

\* BackupService.updateNextRunTime on the config object o: the objects after it, and
\* whether its saveData threw
UpdateNextRunTime(objects, o, save) ==
    IF objects[o].frequency = "manual"
    THEN [ objects |-> objects, threw |-> FALSE ]
    ELSE [ objects |-> [ objects EXCEPT
                           ![o].nextRunAt = NextRunDay(objects[o].frequency, Days[day]),
                           ![o].lastRunAt = Days[day] ],
           threw |-> (save = "throws") ]

\* checkScheduledBackups after `await this.createBackup(...)` settled for the poll
\* `poll`: a rejection ends the poll, otherwise updateNextRunTime runs on the config
\* object the loop holds and the loop goes on
AfterCreateBackup(poll, rest, rejected, updSave) ==
    LET cid == cheap[poll.cfg].cid
        u == UpdateNextRunTime(cheap, poll.cfg, updSave)
    IN  IF rejected
        THEN /\ polls' = rest
             /\ cheap' = cheap
             /\ sret' = SRet("executed", "rejected", cid, TRUE, poll.due, poll.triggered)
        ELSE /\ cheap' = u.objects
             /\ polls' = IF u.threw THEN rest
                         ELSE Append(rest, [ poll EXCEPT !.idx = poll.idx + 1,
                                                        !.awaiting = 0 ])
             /\ sret' = SRet("executed", "resolved", cid, u.threw, poll.due,
                             poll.triggered)

\* The loop of checkScheduledBackups from poll.idx on: it ends, or reaches a due
\* config and calls createBackup, which runs to its first await; the scheduler
\* starts at most `limit` backups in a run
RunLoop(poll, rest, save, catchSave, updSave, limit) ==
    LET i == FirstDue(poll.idx, poll.now) IN
    IF i = 0
    THEN /\ polls' = rest
         /\ sret' = SRet("pollEnd", "done", 0, TRUE, poll.due, poll.triggered)
         /\ UNCHANGED <<cheap, backups, heap, tasks, revoked, nextBid, bret>>
    ELSE LET c == configs[i]
             running == [ poll EXCEPT !.idx = i, !.cfg = c, !.awaiting = nextBid,
                                      !.triggered = @ \cup {cheap[c].cid} ]
         IN  /\ nextBid <= limit
             /\ SvcCreateBackupStart(save, catchSave)
             /\ IF save = "ok"
                THEN /\ polls' = Append(rest, running)
                     /\ cheap' = cheap
                     /\ sret' = SRet("trigger", "started", cheap[c].cid, FALSE,
                                     running.due, running.triggered)
                ELSE AfterCreateBackup(running, rest, bret'.kind = "throw", updSave)

frameOfSched == <<userVars, notifVars, connVars, analyticsVars, pct, restoreVars,
                  refreshVars, loadVars, day, sBackups>>

\* The setInterval callback of startScheduleManager: checkScheduledBackups starts
CheckScheduledBackupsWithin(limit) ==
    /\ UNCHANGED frameOfSched
    /\ nPolls < MaxPolls
    /\ nPolls' = nPolls + 1
    /\ LET now == Days[day]
           poll == [ now |-> now, idx |-> 1, cfg |-> 0, awaiting |-> 0,
                     due |-> { cheap[configs[i]].cid : i \in
                                 { j \in 1..Len(configs) : IsDue(cheap[configs[j]], now) } },
                     triggered |-> {} ]
       IN  \E save \in StorageOutcomes, catchSave \in StorageOutcomes,
              updSave \in StorageOutcomes :
             RunLoop(poll, polls, save, catchSave, updSave, limit)
    /\ UNCHANGED <<configs, nextCid>>

CheckScheduledBackups == CheckScheduledBackupsWithin(MaxScheduled)

\* checkScheduledBackups goes on with its loop after updateNextRunTime
CheckScheduledBackupsContinueWithin(k, limit) ==
    /\ UNCHANGED frameOfSched
    /\ k \in 1..Len(polls)
    /\ polls[k].awaiting = 0
    /\ \E save \in StorageOutcomes, catchSave \in StorageOutcomes,
          updSave \in StorageOutcomes :
         RunLoop(polls[k], RemoveAt(polls, k), save, catchSave, updSave, limit)
    /\ UNCHANGED <<configs, nextCid, nPolls>>

CheckScheduledBackupsContinue(k) == CheckScheduledBackupsContinueWithin(k, MaxScheduled)

\* A createBackup called by the scheduler resumes after an await; when it settles,
\* the poll that awaits it resumes
ScheduledBackupStep(backupId) ==
    /\ UNCHANGED frameOfSched
    /\ backupId \in DOMAIN tasks
    /\ \E url \in StorageOutcomes, save \in StorageOutcomes,
          cleanupSave \in StorageOutcomes, catchSave \in StorageOutcomes :
         SvcCreateBackupStep(backupId, url, save, cleanupSave, catchSave)
    /\ IF backupId \in DOMAIN tasks'
       THEN UNCHANGED <<cheap, polls, sret>>
       ELSE LET k == CHOOSE i \in 1..Len(polls) : polls[i].awaiting = backupId
            IN  \E updSave \in StorageOutcomes :
                  AfterCreateBackup(polls[k], RemoveAt(polls, k),
                                    bret'.kind = "throw", updSave)
    /\ UNCHANGED <<configs, nextCid, nPolls>>

frameOfConfigs == <<userVars, notifVars, connVars, analyticsVars, pct, restoreVars,
                    refreshVars, loadVars, backupVars, polls, nPolls, sret>>

\* BackupService.createBackupConfig: nextRunAt is today at scheduleTime, or tomorrow
\* when that time has passed (the result and saveData's outcome are not kept, nor is
\* scheduleTime, which later only sets the hour of a recomputed nextRunAt)
CreateBackupConfig(frequency, isEnabled, scheduleTime, passed) ==
    /\ UNCHANGED frameOfConfigs
    /\ Len(cheap) < MaxConfigObjects
    /\ LET nextRun == IF passed THEN Days[day] + 1 ELSE Days[day]
           newConfig == [ cid |-> nextCid, frequency |-> frequency,
                          isEnabled |-> isEnabled,
                          lastRunAt |-> NoDate,
                          nextRunAt |-> IF frequency # "manual" /\ scheduleTime
                                        THEN nextRun ELSE NoDate ]
       IN  /\ cheap' = Append(cheap, newConfig)
           /\ configs' = <<Len(cheap) + 1>> \o configs
    /\ nextCid' = nextCid + 1

\* BackupService.updateBackupConfig with updates {isEnabled} or {frequency}: the
\* config is replaced in the array by a new object
UpdateBackupConfig(id, key, value) ==
    /\ UNCHANGED frameOfConfigs
    /\ Len(cheap) < MaxConfigObjects
    /\ LET index == FindIndex(configs, LAMBDA o : cheap[o].cid = id) IN
       IF index = 0
       THEN UNCHANGED <<cheap, configs>>
       ELSE LET old == cheap[configs[index]]
                new == IF key = "isEnabled" THEN [ old EXCEPT !.isEnabled = value ]
                       ELSE [ old EXCEPT !.frequency = value ]
            IN  /\ cheap' = Append(cheap, new)
                /\ configs' = [ configs EXCEPT ![index] = Len(cheap) + 1 ]
    /\ UNCHANGED nextCid

\* BackupService.deleteBackupConfig
DeleteBackupConfig(id) ==
    /\ UNCHANGED frameOfConfigs
    /\ LET index == FindIndex(configs, LAMBDA o : cheap[o].cid = id) IN
       IF index = 0
       THEN UNCHANGED configs
       ELSE configs' = RemoveAt(configs, index)
    /\ UNCHANGED <<cheap, nextCid>>

\* A day passes while the scheduler runs
SchedDayPasses ==
    /\ UNCHANGED <<userVars, notifVars, connVars, schedVars, analyticsVars, pct, restoreVars,
                   refreshVars, loadVars>>
    /\ day < Len(Days)
    /\ day' = day + 1
    /\ UNCHANGED <<backups, heap, tasks, revoked, nextBid, sBackups, bret>>

ConfigIds == 1..MaxConfigObjects

SchedInit ==
    /\ configs = <<>>
    /\ cheap = <<>>
    /\ nextCid = 1
    /\ polls = <<>>
    /\ nPolls = 0
    /\ sret = SRet("init", "done", 0, FALSE, {}, {})

SchedNext ==
    \/ CheckScheduledBackups
    \/ \E k \in 1..MaxPolls : CheckScheduledBackupsContinue(k)
    \/ \E b \in BackupIds : ScheduledBackupStep(b)
    \/ \E f \in FrequencyInputs, e \in BOOLEAN, t \in BOOLEAN, p \in BOOLEAN :
         CreateBackupConfig(f, e, t, p)
    \/ \E id \in ConfigIds, e \in BOOLEAN : UpdateBackupConfig(id, "isEnabled", e)
    \/ \E id \in ConfigIds, f \in FrequencyInputs : UpdateBackupConfig(id, "frequency", f)
    \/ \E id \in ConfigIds : DeleteBackupConfig(id)
    \/ SchedDayPasses

\* The scheduler alone with configs that are enabled and due when they are created,
\* one of which may be made manual, and with room for a second scheduled backup
MaxTriggered == 2         \* backups the scheduler starts in such a run

TriggerNext ==
    \/ CheckScheduledBackupsWithin(MaxTriggered)
    \/ \E k \in 1..MaxPolls : CheckScheduledBackupsContinueWithin(k, MaxTriggered)
    \/ \E b \in 1..MaxTriggered : ScheduledBackupStep(b)
    \/ \E f \in { "daily", "manual" } : CreateBackupConfig(f, TRUE, TRUE, FALSE)
    \/ \E id \in ConfigIds : UpdateBackupConfig(id, "frequency", "manual")
    \/ SchedDayPasses

(***************************************************************************)
(*                            ANALYTICS SERVICE                            *)
(***************************************************************************)

MaxSales == 2             \* sales in the data store
\* The instants of a run at which something happens, in minutes: an entry cached at
\* 0 is 4 minutes old and then 5 minutes old
Minutes == { 0, 4, 5 }

CACHE_DURATION == 5       \* AnalyticsService.CACHE_DURATION (5 * 60 * 1000 ms), in minutes

Kinds == { "performance", "sales", "customers" }

\* Dates of sales and bounds of date ranges, on one time line; a sale without data
\* and createdAt is dated Date.now() when it is read
SaleDateInputs == { 1, 2, 3 }

\* The AnalyticsFilters of the calls: a dateRange and an optional granularity
FilterInputs ==
    { [ start |-> 2, end |-> 4, granularity |-> "day" ] }

\* JSON.stringify(filters): the dateRange and the granularity, a property that is
\* undefined being left out
Stringify(filters) ==
    IF filters.granularity = "undefined"
    THEN << filters.start, filters.end >>
    ELSE << filters.start, filters.end, filters.granularity >>

\* `performance_${...}`, `sales_${...}`, `customers_${...}`
CacheKey(kind, filters) == << kind, Stringify(filters) >>

\* calculatePercentChange without the test of previous === 0
calculatePercentChange_NoZeroTest(current, previous) ==
    [ num |-> (current - previous) * 100, den |-> previous ]

\* AnalyticsService.calculatePercentChange; the quotient is kept as a fraction
calculatePercentChange(current, previous) ==
    IF previous = 0
    THEN [ num |-> IF current > 0 THEN 100 ELSE 0, den |-> 1 ]
    ELSE [ num |-> (current - previous) * 100, den |-> previous ]

\* new Date(sale.data || sale.createdAt || Date.now())
SaleDate(sale) == IF sale.data = NoDate THEN aNow ELSE sale.data

\* AnalyticsService.filterSalesByDateRange: the sales (by index) the filter keeps
filterSalesByDateRange(sales, start, end) ==
    SelectSeq([ i \in 1..Len(sales) |-> i ],
              LAMBDA i : SaleDate(sales[i]) >= start /\ SaleDate(sales[i]) <= end)

\* AnalyticsService.getPreviousPeriodSales
getPreviousPeriodSales(sales, start, end) ==
    LET periodLength == end - start
        previousStart == start - periodLength
        previousEnd == start
    IN  filterSalesByDateRange(sales, previousStart, previousEnd)

NoChange == [ num |-> 0, den |-> 1 ]

\* What a calculation computes from the data store: the sales of the period, those of
\* the previous period where the calculation reads them, and the change of the
\* number of orders
Calculate(kind, filters) ==
    LET filteredSales == filterSalesByDateRange(vendas, filters.start, filters.end)
        previousPeriodSales == getPreviousPeriodSales(vendas, filters.start, filters.end)
    IN  CASE kind = "performance" ->
               [ kind |-> kind, current |-> filteredSales,
                 previous |-> previousPeriodSales,
                 changePercent |-> calculatePercentChange(Len(filteredSales),
                                                         Len(previousPeriodSales)) ]
          [] kind = "sales" ->
               [ kind |-> kind, current |-> filteredSales, previous |-> <<>>,
                 changePercent |-> NoChange ]
          [] kind = "customers" ->
               [ kind |-> kind, current |-> filteredSales,
                 previous |-> previousPeriodSales, changePercent |-> NoChange ]

\* getCachedData returns the entry whatever its age
HasCachedData_NeverExpires(key) == key \in DOMAIN cache

\* AnalyticsService.getCachedData returns data (not null) for the key
HasCachedData(key) ==
    key \in DOMAIN cache /\ aNow - cache[key].timestamp < CACHE_DURATION

ARet(kind, key, data, cached) ==
    [ kind |-> kind, key |-> key, data |-> data, cached |-> cached ]

frameOfAnalytics == <<userVars, notifVars, backupVars, connVars, schedVars, pct, restoreVars,
                      refreshVars, loadVars>>

\* calculatePerformanceMetrics / calculateSalesAnalytics / calculateCustomerAnalytics
CalculateAnalytics(kind, filters) ==
    /\ UNCHANGED frameOfAnalytics
    /\ LET cacheKey == CacheKey(kind, filters) IN
       IF HasCachedData(cacheKey)
       THEN /\ aret' = ARet(kind, cacheKey, cache[cacheKey].data, TRUE)
            /\ UNCHANGED cache
       ELSE LET data == Calculate(kind, filters) IN
            /\ cache' = (cacheKey :> [ data |-> data, timestamp |-> aNow ]) @@ cache
            /\ aret' = ARet(kind, cacheKey, data, FALSE)
    /\ UNCHANGED <<vendas, aNow>>

\* The data store gets one more sale
AddSale(date) ==
    /\ UNCHANGED frameOfAnalytics
    /\ Len(vendas) < MaxSales
    /\ vendas' = Append(vendas, [ data |-> date ])
    /\ UNCHANGED <<cache, aNow, aret>>

\* Time passes, to the next instant of the run
AnalyticsTick ==
    /\ UNCHANGED frameOfAnalytics
    /\ \E m \in Minutes :
         /\ m > aNow
         /\ \A other \in Minutes : other > aNow => m <= other
         /\ aNow' = m
    /\ UNCHANGED <<vendas, cache, aret>>

AnalyticsInit ==
    /\ vendas = <<>>
    /\ cache = <<>>
    /\ aNow = 0
    /\ aret = ARet("none", <<>>, [ kind |-> "none" ], FALSE)

AnalyticsNext ==
    \/ \E k \in Kinds, f \in FilterInputs : CalculateAnalytics(k, f)
    \/ \E d \in SaleDateInputs : AddSale(d)
    \/ AnalyticsTick

---------------------------------------------------------------------------
\* calculatePercentChange on its own

MaxPercentArg == 4        \* arguments range over -MaxPercentArg..MaxPercentArg

PercentArgs == (0 - MaxPercentArg)..MaxPercentArg

\* calculatePercentChange is called with the two arguments drawn
PercentChange ==
    /\ UNCHANGED <<userVars, notifVars, backupVars, connVars, schedVars, analyticsVars,
                   restoreVars, refreshVars, loadVars>>
    /\ ~pct.called
    /\ pct' = [ pct EXCEPT !.called = TRUE,
                           !.result = calculatePercentChange(pct.current, pct.previous) ]

PercentInit ==
    pct = [ current |-> 0, previous |-> 0, called |-> FALSE, result |-> NoChange ]

PercentInputs ==
    pct \in [ current : PercentArgs, previous : PercentArgs, called : {FALSE},
              result : {NoChange} ]

PercentNext == PercentChange

(***************************************************************************)
(*                              RESTORE BACKUP                             *)
(***************************************************************************)

MaxRestores == 2          \* at most this many restoreBackup calls record an operation

MsgRestoreNotFound == "Backup nao encontrado ou nao concluido"
MsgRestoreError    == "Erro ao restaurar backup"

\* An optional array of BackupData: present or not, and its items
Absent == [ present |-> FALSE, items |-> <<>> ]
Present(items) == [ present |-> TRUE, items |-> items ]

\* What response.json() yields for the backup file: a file with the three arrays, a
\* file with sales only, and a file with none of them
BackupDataInputs ==
    { [ vendas |-> Present(<< [ data |-> 1 ], [ data |-> 3 ] >>),
        estoque |-> Present(<< "item" >>),
        revendedores |-> Present(<< "revendedor" >>) ],
      [ vendas |-> Present(<< [ data |-> 2 ] >>),
        estoque |-> Absent, revendedores |-> Absent ],
      [ vendas |-> Absent, estoque |-> Absent, revendedores |-> Absent ] }

\* fetch(backup.downloadUrl) and response.json(): the file is read, or one of them
\* rejects; a revoked object URL cannot be fetched
FetchOutcomes(backupId) ==
    IF backupId \in revoked THEN { "throws" } ELSE { "ok", "throws" }

RRet(success, message, operationId) ==
    [ op |-> "restoreBackup", success |-> success, message |-> message,
      operationId |-> operationId ]

NewOperation(operationId, backupId) ==
    [ id |-> operationId, backupId |-> backupId, status |-> "running", progress |-> 0,
      itemsRestored |-> 0 ]

\* restoreBackup goes on whatever the status of the backup it found
CanRestore_AnyStatus(backupId) == backupId \in Range(backups)

\* restoreBackup: the backup is found and completed
CanRestore(backupId) ==
    backupId \in Range(backups) /\ heap[backupId].status = "completed"

\* The items restoreBackup counts for one array of the file
ItemsOf(array) == IF array.present THEN Len(array.items) ELSE 0

frameOfRestore == <<userVars, notifVars, backupVars, connVars, schedVars, analyticsVars, pct,
                    refreshVars, loadVars, estoque, revendedores>>

\* useBackupStore.restoreBackup, up to fetch: BackupService.restoreBackup looks the
\* backup up, gives up when it is missing or not completed, and otherwise records a
\* running operation and fetches the file
RestoreBackupStart(backupId) ==
    /\ UNCHANGED frameOfRestore
    /\ nextOp <= MaxRestores
    /\ IF ~CanRestore(backupId)
       THEN /\ rret' = RRet(FALSE, MsgRestoreNotFound, 0)
            /\ UNCHANGED <<restoreOperations, restoring, nextOp>>
       ELSE LET operationId == nextOp IN
            /\ nextOp' = nextOp + 1
            /\ restoreOperations' = << NewOperation(operationId, backupId) >>
                                        \o restoreOperations
            /\ IF heap[backupId].downloadUrl
               THEN /\ restoring' = restoring @@ (operationId :> backupId)
                    /\ UNCHANGED rret
               ELSE /\ rret' = RRet(TRUE, "", operationId)
                    /\ UNCHANGED restoring

\* restoreBackup resumed after fetch and response.json(): the items of the file are
\* counted (the setters of the data store are commented out) and the operation is
\* completed; when the file could not be read the operation becomes failed
RestoreBackupStep(operationId) ==
    /\ UNCHANGED frameOfRestore
    /\ operationId \in DOMAIN restoring
    /\ restoring' = Without(restoring, operationId)
    /\ UNCHANGED nextOp
    /\ LET index == FindIndex(restoreOperations, LAMBDA o : o.id = operationId) IN
       \E outcome \in FetchOutcomes(restoring[operationId]),
          backupData \in BackupDataInputs :
         IF outcome = "ok"
         THEN /\ restoreOperations' =
                    [ restoreOperations EXCEPT
                        ![index].itemsRestored = ItemsOf(backupData.vendas)
                                                   + ItemsOf(backupData.estoque)
                                                   + ItemsOf(backupData.revendedores),
                        ![index].status = "completed",
                        ![index].progress = ProgressEnd ]
              /\ rret' = RRet(TRUE, "", operationId)
         ELSE /\ restoreOperations' =
                    [ restoreOperations EXCEPT ![index].status = "failed" ]
              /\ rret' = RRet(FALSE, MsgRestoreError, operationId)

RestoreInit ==
    /\ estoque = <<>>
    /\ revendedores = <<>>
    /\ restoreOperations = <<>>
    /\ restoring = <<>>
    /\ nextOp = 1
    /\ rret = RRet(TRUE, "", 0)

\* The ids restoreBackup is called with: those of the backups and one of no backup
RestoreIds == 1..(MaxBackups + 1)

RestoreNext ==
    \/ CreateBackupStart
    \/ \E b \in BackupIds : CreateBackupStep(b)
    \/ \E id \in BackupIds : DeleteBackup(id)
    \/ \E id \in RestoreIds : RestoreBackupStart(id)
    \/ \E o \in 1..MaxRestores : RestoreBackupStep(o)

(***************************************************************************)
(*                     ANALYTICS STORE: AUTO-REFRESH                       *)
(***************************************************************************)

MaxHandles == 3           \* at most this many setInterval calls in a run

DefaultRefreshInterval == 300   \* useAnalyticsStore.refreshInterval initial value
NoHandle == 0                   \* window.analyticsRefreshInterval not set

\* The periods setRefreshInterval is called with, in seconds
RefreshIntervalInputs == { 60, 300 }

FRet(op, handle, refreshed) == [ op |-> op, handle |-> handle, refreshed |-> refreshed ]

\* setAutoRefresh(true) that clears the timer of the slot before it starts a new one
IntervalsAfterEnable_ClearFirst(live, slot, handle, period) ==
    (handle :> period) @@ [ h \in DOMAIN live \ {slot} |-> live[h] ]

\* setAutoRefresh(true): setInterval starts one more timer; those running go on
IntervalsAfterEnable(live, slot, handle, period) == (handle :> period) @@ live

\* clearInterval(window.analyticsRefreshInterval), when the slot is set
IntervalsAfterDisable(live, slot) ==
    IF slot # NoHandle THEN [ h \in DOMAIN live \ {slot} |-> live[h] ] ELSE live

\* useAnalyticsStore.setAutoRefresh on the given timers and slot: the timers and the
\* slot after the call
StoreSetAutoRefresh(enabled, live, slot, handle, period) ==
    IF enabled
    THEN [ intervals |-> IntervalsAfterEnable(live, slot, handle, period),
           slot |-> handle, handle |-> handle + 1 ]
    ELSE [ intervals |-> IntervalsAfterDisable(live, slot),
           slot |-> slot, handle |-> handle ]

frameOfRefresh == <<userVars, notifVars, backupVars, connVars, schedVars, analyticsVars, pct,
                    restoreVars, loadVars>>

\* useAnalyticsStore.setAutoRefresh
SetAutoRefresh(enabled) ==
    /\ UNCHANGED frameOfRefresh
    /\ enabled => nextHandle <= MaxHandles
    /\ autoRefresh' = enabled
    /\ LET after == StoreSetAutoRefresh(enabled, intervals, analyticsRefreshInterval,
                                        nextHandle, refreshInterval)
       IN  /\ intervals' = after.intervals
           /\ analyticsRefreshInterval' = after.slot
           /\ nextHandle' = after.handle
    /\ fret' = FRet(IF enabled THEN "enable" ELSE "disable", analyticsRefreshInterval', FALSE)
    /\ UNCHANGED refreshInterval

\* useAnalyticsStore.setRefreshInterval: with auto-refresh on, setAutoRefresh(false)
\* and then setAutoRefresh(true)
SetRefreshInterval(seconds) ==
    /\ UNCHANGED frameOfRefresh
    /\ refreshInterval' = seconds
    /\ IF autoRefresh
       THEN /\ nextHandle <= MaxHandles
            /\ LET off == StoreSetAutoRefresh(FALSE, intervals, analyticsRefreshInterval,
                                              nextHandle, seconds)
                   on == StoreSetAutoRefresh(TRUE, off.intervals, off.slot, off.handle,
                                             seconds)
               IN  /\ intervals' = on.intervals
                   /\ analyticsRefreshInterval' = on.slot
                   /\ nextHandle' = on.handle
            /\ fret' = FRet("restart", analyticsRefreshInterval', FALSE)
       ELSE /\ UNCHANGED <<intervals, analyticsRefreshInterval, nextHandle>>
            /\ fret' = FRet("setRefreshInterval", NoHandle, FALSE)
    /\ UNCHANGED autoRefresh

\* A live timer fires: its callback calls refresh() when autoRefresh is on
IntervalFires(handle) ==
    /\ UNCHANGED frameOfRefresh
    /\ handle \in DOMAIN intervals
    /\ fret' = FRet("fires", handle, autoRefresh)
    /\ UNCHANGED <<autoRefresh, refreshInterval, intervals, analyticsRefreshInterval,
                   nextHandle>>

RefreshInit ==
    /\ autoRefresh = FALSE
    /\ refreshInterval = DefaultRefreshInterval
    /\ intervals = <<>>
    /\ analyticsRefreshInterval = NoHandle
    /\ nextHandle = 1
    /\ fret = FRet("init", NoHandle, FALSE)

RefreshNext ==
    \/ \E enabled \in BOOLEAN : SetAutoRefresh(enabled)
    \/ \E seconds \in RefreshIntervalInputs : SetRefreshInterval(seconds)
    \/ \E h \in 1..MaxHandles : IntervalFires(h)

(***************************************************************************)
(*                        ANALYTICS STORE: LOADING                         *)
(***************************************************************************)

MaxLoads == 3             \* loadAllAnalytics calls in a run

\* The service call an async load awaits resolves or rejects
CalcOutcomes == { "ok", "throws" }

LoadFns == { "loadPerformanceMetrics", "loadSalesAnalytics", "loadCustomerAnalytics" }

\* A function suspended at an await: the function, where it is, the outcome of what
\* it awaits and, for a load, the function that awaits the load
Suspended(fn, at, outcome, caller) ==
    [ fn |-> fn, at |-> at, outcome |-> outcome, caller |-> caller ]

LRet(op, at, loading) == [ op |-> op, at |-> at, loading |-> loading ]

\* The loads in flight: the suspended loadPerformanceMetrics, loadSalesAnalytics,
\* loadCustomerAnalytics and loadInsights
InFlight ==
    { i \in 1..Len(microtasks) : microtasks[i].fn \in LoadFns \cup { "loadInsights" } }

frameOfLoad == <<userVars, notifVars, backupVars, connVars, schedVars, analyticsVars, pct,
                 restoreVars, refreshVars>>

\* loadInsights from its start or from after `await get().loadPerformanceMetrics()`:
\* the functions it leaves suspended, and whether it has set isLoading (the
\* loadPerformanceMetrics it calls sets isLoading to true and error to null)
LoadInsightsFrom(start, outcome) ==
    IF start /\ ~performanceMetrics
    THEN [ suspended |-> << Suspended("loadPerformanceMetrics", "calculate", outcome,
                                      "loadInsights") >>,
           loading |-> TRUE ]
    ELSE IF performanceMetrics
         THEN [ suspended |-> << Suspended("loadInsights", "generateInsights", outcome,
                                           "loadAllAnalytics") >>,
                loading |-> isLoading ]
         ELSE [ suspended |-> << Suspended("loadAllAnalytics", "loadInsights", "ok", "") >>,
                loading |-> isLoading ]

\* useAnalyticsStore.loadAllAnalytics up to `await Promise.all([...])`: the three
\* loads run to their awaits; a call starts when no function is suspended, every
\* await here being settled by a microtask
LoadAllAnalytics ==
    /\ UNCHANGED frameOfLoad
    /\ microtasks = <<>>
    /\ nLoads < MaxLoads
    /\ nLoads' = nLoads + 1
    /\ isLoading' = TRUE
    /\ \E p \in CalcOutcomes, s \in CalcOutcomes, c \in CalcOutcomes :
         microtasks' = << Suspended("loadPerformanceMetrics", "calculate", p,
                                    "loadAllAnalytics"),
                          Suspended("loadSalesAnalytics", "calculate", s,
                                    "loadAllAnalytics"),
                          Suspended("loadCustomerAnalytics", "calculate", c,
                                    "loadAllAnalytics") >>
    /\ joining' = 3
    /\ error' = FALSE
    /\ lret' = LRet("loadAllAnalytics", "start", TRUE)
    /\ UNCHANGED performanceMetrics

\* loadPerformanceMetrics, loadSalesAnalytics or loadCustomerAnalytics resumes after
\* its await: it sets its result or the error, and isLoading to false; the function
\* that awaits it resumes when it has nothing else to wait for
LoadResumes ==
    /\ UNCHANGED frameOfLoad
    /\ microtasks # <<>>
    /\ LET t == Head(microtasks) IN
       /\ t.fn \in LoadFns
       /\ isLoading' = FALSE
       /\ error' = (t.outcome = "throws" \/ error)
       /\ performanceMetrics' =
            IF t.fn = "loadPerformanceMetrics" /\ t.outcome = "ok"
            THEN TRUE ELSE performanceMetrics
       /\ IF t.caller = "loadInsights"
          THEN /\ microtasks' = Append(Tail(microtasks),
                                       Suspended("loadInsights", "loadPerformanceMetrics",
                                                 "ok", "loadAllAnalytics"))
               /\ UNCHANGED joining
          ELSE /\ joining' = joining - 1
               /\ microtasks' =
                    IF joining = 1
                    THEN Append(Tail(microtasks),
                                Suspended("loadAllAnalytics", "Promise.all", "ok", ""))
                    ELSE Tail(microtasks)
       /\ lret' = LRet(t.fn, "end", FALSE)
    /\ UNCHANGED nLoads

\* loadInsights resumes: after loadPerformanceMetrics it reads performanceMetrics
\* again and calls generateInsights if they are set; after generateInsights it sets
\* the insights or the error and returns
LoadInsightsResumes ==
    /\ UNCHANGED frameOfLoad
    /\ microtasks # <<>>
    /\ LET t == Head(microtasks) IN
       /\ t.fn = "loadInsights"
       /\ IF t.at = "loadPerformanceMetrics"
          THEN \E g \in CalcOutcomes :
                 microtasks' = Tail(microtasks) \o LoadInsightsFrom(FALSE, g).suspended
          ELSE microtasks' = Append(Tail(microtasks),
                                    Suspended("loadAllAnalytics", "loadInsights", "ok", ""))
       /\ error' = ((t.at = "generateInsights" /\ t.outcome = "throws") \/ error)
       /\ lret' = LRet("loadInsights", t.at, isLoading)
    /\ UNCHANGED <<isLoading, performanceMetrics, joining, nLoads>>

\* loadAllAnalytics resumes: after Promise.all it calls loadInsights, which runs to
\* its first await; after loadInsights it sets isLoading to false
LoadAllAnalyticsResumes ==
    /\ UNCHANGED frameOfLoad
    /\ microtasks # <<>>
    /\ LET t == Head(microtasks) IN
       /\ t.fn = "loadAllAnalytics"
       /\ IF t.at = "Promise.all"
          THEN \E g \in CalcOutcomes :
                 LET r == LoadInsightsFrom(TRUE, g) IN
                 /\ microtasks' = Tail(microtasks) \o r.suspended
                 /\ isLoading' = r.loading
                 /\ error' = (performanceMetrics /\ error)
                 /\ lret' = LRet("loadAllAnalytics", "loadInsights", r.loading)
          ELSE /\ microtasks' = Tail(microtasks)
               /\ isLoading' = FALSE
               /\ UNCHANGED error
               /\ lret' = LRet("loadAllAnalytics", "end", FALSE)
    /\ UNCHANGED <<performanceMetrics, joining, nLoads>>

LoadInit ==
    /\ isLoading = FALSE
    /\ error = FALSE
    /\ performanceMetrics = FALSE
    /\ microtasks = <<>>
    /\ joining = 0
    /\ nLoads = 0
    /\ lret = LRet("init", "", FALSE)

LoadNext ==
    \/ LoadAllAnalytics
    \/ LoadResumes
    \/ LoadInsightsResumes
    \/ LoadAllAnalyticsResumes

(***************************************************************************)
(*                             SPECIFICATIONS                              *)
(***************************************************************************)

Init ==
    /\ UserInit /\ NotifInit /\ BackupInit /\ ConnEstablished /\ SchedInit
    /\ AnalyticsInit /\ PercentInit /\ RestoreInit /\ RefreshInit /\ LoadInit

ConnSpecInit ==
    /\ UserInit /\ NotifInit /\ BackupInit /\ ConnInit /\ SchedInit
    /\ AnalyticsInit /\ PercentInit /\ RestoreInit /\ RefreshInit /\ LoadInit

PercentSpecInit ==
    /\ UserInit /\ NotifInit /\ BackupInit /\ ConnEstablished /\ SchedInit
    /\ AnalyticsInit /\ PercentInputs /\ RestoreInit /\ RefreshInit /\ LoadInit

UserSpec == Init /\ [][UserNext]_vars

UserServiceSpec == Init /\ [][UserServiceNext]_vars

AuthSpec == Init /\ [][AuthNext]_vars

AdminSpec == Init /\ [][AdminNext]_vars

NotifSpec == Init /\ [][NotifNext]_vars

NotifServiceSpec == Init /\ [][NotifServiceNext]_vars

SyncSpec == Init /\ [][SyncNext]_vars

BackupSpec == Init /\ [][BackupNext]_vars

ConnSpec == ConnSpecInit /\ [][ConnNext]_vars

SchedSpec == Init /\ [][SchedNext]_vars

TriggerSpec == Init /\ [][TriggerNext]_vars

AnalyticsSpec == Init /\ [][AnalyticsNext]_vars

PercentSpec == PercentSpecInit /\ [][PercentNext]_vars

RestoreSpec == Init /\ [][RestoreNext]_vars

RefreshSpec == Init /\ [][RefreshNext]_vars

LoadSpec == Init /\ [][LoadNext]_vars

(***************************************************************************)
(*                                 CLAIMS                                  *)
(***************************************************************************)

\* The permission each gated method of UserService asks for
RequiredPermission(op) == IF op = "getUserActivity" THEN "canViewLogs" ELSE "canManageUsers"
GatedOps == { "getAllUsers", "createUser", "updateUser", "deleteUser", "getUserActivity" }

\* C1: whenever a permission-gated method of the user service is called while the
\* current user lacks the permission (or is null), the call returns a
\* {success: false, message} result and the users list is unchanged.
C1_GatedMethodsReturnDenied ==
    [][ (uret'.op \in GatedOps /\ ~hasPermission(RequiredPermission(uret'.op)))
        => /\ uret'.kind = "result"
           /\ uret'.success = FALSE
           /\ uret'.message = MsgDenied
           /\ users' = users ]_vars

NoTwoUsersShareEmail ==
    \A i, j \in 1..Len(users) : users[i].email = users[j].email => i = j

\* C2: createUser by a principal holding canManageUsers, with the email of a user
\* already in the list, fails and leaves the users list unchanged; and in every
\* reachable state no two users of the list share an email.
C2_DuplicateEmailRejected ==
    /\ []NoTwoUsersShareEmail
    /\ [][ \A e \in Emails, r \in RoleInputs :
             ( /\ ServiceCreateUser(e, r)
               /\ hasPermission("canManageUsers")
               /\ \E i \in 1..Len(users) : users[i].email = e )
             => /\ uret'.kind = "result"
                /\ uret'.success = FALSE
                /\ users' = users ]_vars

\* A createUser call by an administrator was rejected for its email, after another
\* user had been created
C2_Witness ==
    /\ uret.op = "createUser"
    /\ uret.message = MsgEmailInUse
    /\ hasPermission("canManageUsers")
    /\ Len(users) > 2

\* C3: no public method of the user service or of the backup service throws or
\* rejects: every call settles with a returned value or a {success, message} result.
C3_NoMethodThrows ==
    /\ uret.kind # "throw"
    /\ bret.kind # "throw"

C5_QuietHoursDeferral ==
    [][ /\ \A c \in Categories :
             (ServiceAddNotification(c) /\ CategoryEnabled(c) /\ isQuietHours)
             => /\ queue' = Append(queue, [ id |-> nextNid, timestamp |-> clock,
                                            read |-> FALSE ])
                /\ notifications' = notifications
                /\ nret'.notified = <<>>
        /\ \A id \in Ids(queue) :
             (id \in Ids(notifications') \/ id \in Range(nret'.notified))
             => nret'.op = "processQueue"
        /\ ServiceProcessQueue
             => /\ queue' = <<>>
                /\ Ids(queue) \subseteq Ids(notifications')
                /\ nret'.notified = [ i \in 1..Len(queue) |-> queue[i].id ] ]_vars

\* processQueue has just delivered two notifications deferred during quiet hours
C5_Witness ==
    /\ nret.op = "processQueue"
    /\ Len(nret.notified) >= 2
    /\ Range(nret.notified) \subseteq Ids(notifications)
    /\ queue = <<>>

\* C6: a backup created by createBackup is in the backup list as soon as creation
\* starts, with status pending, and its status only ever goes from pending to running
\* and from running to completed or to failed.
StatusSteps ==
    { <<"pending", "running">>, <<"running", "completed">>,
      <<"running", "failed">>, <<"pending", "failed">> }

C6_StatusProgression ==
    [][ /\ \A b \in 1..Len(heap') :
             b > Len(heap) => b \in Range(backups') /\ heap'[b].status = "pending"
        /\ \A b \in 1..Len(heap) :
             heap'[b].status # heap[b].status
                => <<heap[b].status, heap'[b].status>> \in StatusSteps ]_vars

\* C7: deleteBackup(id) for an id in the list revokes that backup's object URL when it
\* has one and no other, removes exactly that backup from the list and leaves every
\* backup object as it was; for an id not in the list the result has success = false
\* and neither the list, the backups, the revoked URLs nor the store's list change.
C7_DeleteBackup ==
    [][ \A id \in BackupIds :
          DeleteBackup(id) =>
            IF id \in Range(backups)
            THEN /\ revoked' = IF heap[id].downloadUrl THEN revoked \cup {id} ELSE revoked
                 /\ backups' = SelectSeq(backups, LAMBDA b : b # id)
                 /\ heap' = heap
            ELSE /\ bret'.success = FALSE
                 /\ UNCHANGED <<backups, heap, revoked, sBackups>> ]_vars

\* A backup with an object URL was deleted, the URL revoked, and another backup stays
C7_Witness ==
    /\ bret.op = "deleteBackup"
    /\ bret.success
    /\ bret.id \in revoked
    /\ bret.id \notin Range(backups)
    /\ backups # <<>>

\* C8: the stored list never holds more than the limit, and a notification leaves
\* the list in an addNotification step (an eviction) only if no notification that stays
\* is older than it.
C8_CappedOldestEvicted ==
    /\ [](Len(notifications) <= NotificationLimit)
    /\ [][ nret'.op = "addNotification" =>
             \A i \in 1..Len(notifications) :
               notifications[i].id \notin Ids(notifications') =>
                 \A j \in 1..Len(notifications') :
                   notifications[i].timestamp <= notifications'[j].timestamp ]_vars

\* C9: the quiet-hours queue never holds more than queue.maxSize notifications.
C9_QueueBounded ==
    Len(queue) <= QueueMaxSize

\* C10: addNotification for a category whose enabled toggle is off leaves the list,
\* the queue and the persisted storage unchanged and calls no listener, in and out of
\* quiet hours, and returns the generated id.
C10_DisabledCategoryDropped ==
    [][ \A c \in Categories :
          (ServiceAddNotification(c) /\ ~CategoryEnabled(c))
          => /\ notifications' = notifications
             /\ queue' = queue
             /\ stored' = stored
             /\ nret'.notified = <<>>
             /\ nret'.id = nextNid ]_vars

\* addNotification has just dropped a notification while quiet hours were active and
\* the list and the queue were not empty
C10_Witness ==
    /\ nret.op = "addNotification"
    /\ nret.id \notin (Ids(notifications) \cup Ids(queue))
    /\ isQuietHours
    /\ notifications # <<>>
    /\ queue # <<>>
\* C11: a connection error counts one more attempt and sets the reconnect timer to
\* 2^n seconds, n being the number of failures so far; the timer callback reconnects
\* only while fewer than 5 attempts were made; reconnectAttempts never exceeds 5.
C11_ReconnectBackoff ==
    /\ [](reconnectAttempts <= 5)
    /\ [][ /\ reconnectAttempts' # reconnectAttempts
              => /\ reconnectAttempts' = reconnectAttempts + 1
                 /\ reconnectTimers' # <<>>
                 /\ LET t == reconnectTimers'[Len(reconnectTimers')]
                    IN  t.delay = 2^(reconnectAttempts') /\ t.due = connNow + t.delay
           /\ (cret'.op = "reconnect" /\ ReconnectTimerFires)
              => /\ reconnectAttempts < 5
                 /\ Head(reconnectTimers).due <= connNow ]_vars

\* The fifth attempt failed and its timer ran without reconnecting
C11_Witness ==
    /\ reconnectAttempts = 5
    /\ cret.op = "giveUp"
    /\ reconnectTimers = <<>>
    /\ ~connected
\* C12: a poll runs a backup only for a listed config that is enabled and whose
\* nextRunAt is set and not after now; a poll that ends has run every config that was
\* enabled and due when it started, and no other; and when a run has ended, resolved
\* or rejected, the config's nextRunAt is one day, seven days or one month ahead,
\* by its frequency, and its lastRunAt is now.
C12_SchedulerRunsDueConfigs ==
    [][ /\ nextBid' # nextBid
           => \E i \in 1..Len(configs) :
                /\ cheap[configs[i]].cid = sret'.cid
                /\ IsDue(cheap[configs[i]], Days[day])
        /\ ((polls' # polls \/ nPolls' # nPolls) /\ sret'.ended)
           => sret'.triggered = sret'.due
        /\ (polls' # polls /\ sret'.op = "executed")
           => \A i \in 1..Len(configs') :
                LET c == cheap'[configs'[i]] IN
                c.cid = sret'.cid
                  => /\ c.frequency \in { "daily", "weekly", "monthly" }
                     /\ c.nextRunAt = NextRunDay(c.frequency, Days[day])
                     /\ c.lastRunAt = Days[day] ]_vars

\* C13: a calculation called with a key whose entry is less than 5 minutes old
\* returns the cached result and leaves the cache alone, whatever the sales are
\* now; called when the entry is 5 minutes old or older it computes the result
\* from the sales of now and replaces the entry; and the result a calculation
\* returns is always one of its own kind.
C13_AnalyticsCache ==
    [][ \A k \in Kinds, f \in FilterInputs :
          CalculateAnalytics(k, f) =>
              LET key == CacheKey(k, f) IN
              /\ (key \in DOMAIN cache /\ aNow - cache[key].timestamp < CACHE_DURATION)
                     => /\ aret'.cached
                        /\ aret'.data = cache[key].data
                        /\ cache' = cache
              /\ (key \in DOMAIN cache /\ aNow - cache[key].timestamp >= CACHE_DURATION)
                     => /\ ~aret'.cached
                        /\ aret'.data = Calculate(k, f)
                        /\ cache'[key] = [ data |-> Calculate(k, f), timestamp |-> aNow ]
              /\ aret'.data.kind = k ]_vars

\* A call returned the cached result although the sales have changed since, while
\* another entry was recomputed after its 5 minutes
C13_Witness ==
    /\ aret.cached
    /\ \E f \in FilterInputs :
         /\ aret.key = CacheKey(aret.kind, f)
         /\ aret.data # Calculate(aret.kind, f)
    /\ \E key \in DOMAIN cache :
         cache[key].timestamp >= CACHE_DURATION /\ cache[key].data # aret.data


\* C14: when a createBackup ends with success, its retention cleanup has run: no
\* backup left in the list was created more than 30 days before now, every backup
\* the cleanup removed that had an object URL has had it revoked, and the backups
\* created within the last 30 days are all still in the list, in their order and
\* with their fields as they were.
C14_RetentionCleanup ==
    [][ \A b \in BackupIds :
          ( /\ CreateBackupStep(b)
            /\ b \notin DOMAIN tasks'
            /\ bret'.op = "createBackup" /\ bret'.success )
          => /\ \A i \in 1..Len(backups') :
                  heap'[backups'[i]].createdAt >= Days[day] - 30
             /\ \A x \in Range(backups) \ Range(backups') :
                  heap'[x].downloadUrl => x \in revoked'
             /\ backups' = SelectSeq(backups,
                               LAMBDA x : heap[x].createdAt >= Days[day] - 30)
             /\ \A x \in Range(backups') \ {b} : heap'[x] = heap[x] ]_vars

\* The second backup has just been completed on day 31: the first, created on day 0
\* and completed, has left the list with its URL revoked
C14_Witness ==
    /\ bret.op = "createBackup" /\ bret.success /\ bret.id = 2
    /\ Days[day] = 31
    /\ heap[1].createdAt = 0 /\ heap[1].downloadUrl
    /\ heap[2].createdAt = 31
    /\ backups = <<2>>
    /\ 1 \in revoked


\* C15: no step of restoreBackup changes the sales, the inventory or the resellers
\* of the data store, nor the backup list or a backup in it, whatever the backup
\* file holds; all it does is add one restore operation or update the one it added;
\* and called for a backup that is missing or not completed it returns
\* success = false and adds no restore operation.
C15_RestoreBackup ==
    [][ /\ ( \/ \E id \in RestoreIds : RestoreBackupStart(id)
             \/ \E o \in 1..MaxRestores : RestoreBackupStep(o) )
           => /\ vendas' = vendas /\ estoque' = estoque /\ revendedores' = revendedores
              /\ backups' = backups /\ heap' = heap
              /\ \/ restoreOperations' = restoreOperations
                 \/ Tail(restoreOperations') = restoreOperations
                 \/ /\ Len(restoreOperations') = Len(restoreOperations)
                    /\ \A i \in 1..Len(restoreOperations) :
                         /\ restoreOperations'[i].id = restoreOperations[i].id
                         /\ restoreOperations'[i].backupId = restoreOperations[i].backupId
        /\ \A id \in RestoreIds :
             ( /\ RestoreBackupStart(id)
               /\ (id \notin Range(backups) \/ heap[id].status # "completed") )
             => /\ rret'.success = FALSE
                /\ restoreOperations' = restoreOperations ]_vars

\* A restore of a file with four items has been completed and the data store is
\* still empty; the last call, for a backup that is missing or not completed, was
\* refused
C15_Witness ==
    /\ \E i \in 1..Len(restoreOperations) :
         /\ restoreOperations[i].status = "completed"
         /\ restoreOperations[i].itemsRestored = 4
    /\ vendas = <<>> /\ estoque = <<>> /\ revendedores = <<>>
    /\ rret = RRet(FALSE, MsgRestoreNotFound, 0)
    /\ Len(restoreOperations) = 1
    /\ backups # <<>>


\* C16: when the performance metrics are computed for a date range [start, end]
\* of length L = end - start, the current-period sales are exactly the sales dated
\* within [start, end], the previous-period sales are exactly the sales dated in
\* the window of length L that ends where start begins, and no sale is in both.
C16_PreviousPeriod ==
    [][ \A f \in FilterInputs :
          (CalculateAnalytics("performance", f) /\ ~aret'.cached)
          => LET L == f.end - f.start
                 current == Range(aret'.data.current)
                 previous == Range(aret'.data.previous)
                 dated(lo, hi) == { i \in 1..Len(vendas) :
                                      SaleDate(vendas[i]) >= lo /\ SaleDate(vendas[i]) <= hi }
             IN  /\ current = dated(f.start, f.end)
                 /\ dated(f.start - L, f.start - 1) \subseteq previous
                 /\ previous \subseteq dated(f.start - L, f.start)
                 /\ current \cap previous = {} ]_vars


\* C17: calculatePercentChange(current, previous) is 100 when previous is 0 and
\* current is greater than 0, is 0 when previous is 0 and current is 0 or less, and
\* is (current - previous) / previous * 100 otherwise.
C17_PercentChange ==
    pct.called =>
        LET r == pct.result IN
        /\ r.den # 0
        /\ (pct.previous = 0 /\ pct.current > 0) => r.num = 100 * r.den
        /\ (pct.previous = 0 /\ pct.current <= 0) => r.num = 0
        /\ pct.previous # 0 => r.num * pct.previous = (pct.current - pct.previous) * 100 * r.den

\* The function has returned 100 for a positive value after 0
C17_Witness ==
    /\ pct.called
    /\ pct.previous = 0 /\ pct.current = 3
    /\ pct.result = [ num |-> 100, den |-> 1 ]


\* C18: the store keeps one interval handle, the latest, in a single global slot.
\* Each setAutoRefresh(true) starts a timer and puts its handle in the slot,
\* leaving every timer already running alive; setAutoRefresh(false) stops the timer
\* of the slot and no other, so a timer started by an earlier setAutoRefresh(true)
\* stays live.
C18_AutoRefreshHandle ==
    [][ /\ SetAutoRefresh(TRUE)
           => /\ analyticsRefreshInterval' = nextHandle
              /\ DOMAIN intervals' = DOMAIN intervals \cup { nextHandle }
        /\ SetAutoRefresh(FALSE)
           => /\ DOMAIN intervals' = DOMAIN intervals \ { analyticsRefreshInterval }
              /\ analyticsRefreshInterval' = analyticsRefreshInterval ]_vars

\* Auto-refresh was enabled twice and then disabled: the second timer is stopped,
\* the first still fires
C18_Witness ==
    /\ ~autoRefresh
    /\ analyticsRefreshInterval = 2
    /\ DOMAIN intervals = { 1 }
    /\ fret = FRet("fires", 1, FALSE)


\* C19: a user leaves UserService.users only in a deleteUser call made while the
\* logged-in user's role grants canManageUsers; deleteUser called with the id of
\* the logged-in user returns failure and removes nobody; and so the logged-in
\* user is always one of the users of the list.
C19_UserLeavesOnlyByDelete ==
    /\ [](currentUser # 0 => \E i \in 1..Len(users) : users[i].oid = currentUser)
    /\ [][ /\ (\E i \in 1..Len(users) :
                 \A j \in 1..Len(users') : users'[j].oid # users[i].oid)
              => /\ uret'.op = "deleteUser" /\ uret'.success
                 /\ hasPermission("canManageUsers")
                 /\ Len(users') = Len(users) - 1
           /\ \A id \in UserIds :
                (ServiceDeleteUser(id) /\ currentUser # 0 /\ UserByOid(currentUser).id = id)
                => ~uret'.success /\ users' = users ]_vars

\* The logged-in admin has deleted the manager, then failed to delete its own user:
\* it is the only user left
C19_Witness ==
    /\ currentUser = 1
    /\ Len(users) = 1 /\ users[1].oid = 1
    /\ uret = URet("deleteUser", "result", FALSE, MsgOwnUser)


\* C20: after any sequence of createUser and updateUser calls, the permissions of
\* every user are exactly the capabilities ROLE_PERMISSIONS grants to the role the
\* user has now.
C20_PermissionsFollowRole ==
    \A i \in 1..Len(users) : users[i].permissions = ROLE_PERMISSIONS[users[i].role]


\* C21: a login succeeds only when a user of the list has the given email, is
\* active and passes the password check; after a successful login that user is
\* the current user of the service and of the store; after a failed login the
\* current user of both is the one it was.
C21_Login ==
    [][ \A e \in Emails, p \in Passwords :
          Login(e, p) =>
            LET matching == { i \in 1..Len(users) :
                                /\ users[i].email = e
                                /\ users[i].isActive
                                /\ IF e = AdminEmail THEN p = AdminPassword
                                                     ELSE PasswordLength(p) >= 3 }
            IN  /\ uret'.op = "login"
                /\ uret'.success
                     => /\ matching # {}
                        /\ \E i \in matching : currentUser' = users[i].oid
                        /\ storeCurrentUser' = currentUser'
                        /\ isAuthenticated'
                /\ ~uret'.success
                     => /\ currentUser' = currentUser
                        /\ storeCurrentUser' = storeCurrentUser
                        /\ isAuthenticated' = isAuthenticated ]_vars

\* The admin is logged in, the manager has been made inactive, and a login with the
\* manager's email has just been refused
C21_Witness ==
    /\ uret = URet("login", "result", FALSE, MsgNotFoundOrInactive)
    /\ currentUser = 1 /\ storeCurrentUser = 1
    /\ \E i \in 1..Len(users) : users[i].email = ManagerEmail /\ ~users[i].isActive


\* C28: whenever the user store has isAuthenticated = true and a current user, the
\* current user of the user service is that same user, so that hasPermission
\* answers for the user shown as logged in; after any sequence of login, logout,
\* updateProfile and page reload.
C28_StoreAndServiceAgree ==
    (isAuthenticated /\ storeCurrentUser # 0) => currentUser = storeCurrentUser


\* C22: the progress of a backup is always within 0..100, no step decreases it and
\* a step that changes it adds 20; and a backup that the service or the store
\* lists with status completed has progress 100, its completedAt and its
\* downloadUrl.
C22_BackupProgress ==
    /\ [](\A b \in Range(backups) \cup Range(sBackups) :
            /\ heap[b].progress \in 0..100
            /\ heap[b].status = "completed"
                 => heap[b].progress = 100 /\ heap[b].completedAt /\ heap[b].downloadUrl)
    /\ [][ \A b \in DOMAIN heap :
             \/ heap'[b].progress = heap[b].progress
             \/ heap'[b].progress = heap[b].progress + 20 ]_vars

\* C23: after any sequence of createUser and deleteUser calls by an admin, no two
\* users of the list have the same id.
C23_UserIdsUnique ==
    \A i, j \in 1..Len(users) : i # j => users[i].id # users[j].id


\* C24: the store's activeToasts never holds two toasts of the same notification
\* id: a delivered notification produces at most one toast.
C24_OneToastPerNotification ==
    \A i, j \in 1..Len(activeToasts) : i # j => activeToasts[i] # activeToasts[j]


\* C25: completed and failed are terminal. A backup that is completed stays
\* completed and a backup that is failed stays failed; and createBackup never
\* sets to failed a backup it has set to completed, whatever error is raised
\* afterwards: completedAt is assigned together with the status completed and
\* never cleared, so no failed backup has it.
C25_TerminalStatuses ==
    /\ [](\A b \in DOMAIN heap : heap[b].status = "failed" => ~heap[b].completedAt)
    /\ [][ \A b \in DOMAIN heap :
             /\ heap[b].status = "completed" => heap'[b].status = "completed"
             /\ heap[b].status = "failed" => heap'[b].status = "failed" ]_vars


\* C26: whenever a createBackup resolves with success = true and a backupId, the
\* backup list then holds a backup with that id whose status is completed,
\* whatever deleteBackup or other createBackup calls ran while it was suspended.
C26_ResolvedBackupListed ==
    [][ \A b \in BackupIds :
          ( /\ CreateBackupStep(b)
            /\ b \notin DOMAIN tasks'
            /\ bret'.op = "createBackup" /\ bret'.success )
          => /\ bret'.id \in Range(backups')
             /\ heap'[bret'.id].status = "completed" ]_vars

\* C27: a poll triggers a config that was triggered before (by a poll whose backup
\* is still running, by the poll that has just ended, or by the run that has just
\* ended) only when that config's nextRunAt has been recomputed since, that is when
\* lastRunAt is set and nextRunAt is later than it, and has been reached; a manual
\* config, whose nextRunAt is never recomputed, is not triggered again.
C27_OneBackupPerDueTime ==
    [][ (/\ nextBid' # nextBid
         /\ \/ \E k \in 1..Len(polls) :
                  polls[k].awaiting # 0 /\ cheap[polls[k].cfg].cid = sret'.cid
            \/ sret.op = "pollEnd" /\ sret'.cid \in sret.triggered
            \/ sret.op = "executed" /\ sret'.cid = sret.cid)
        => \E i \in 1..Len(configs) :
             LET c == cheap[configs[i]] IN
             /\ c.cid = sret'.cid
             /\ c.frequency # "manual"
             /\ c.lastRunAt # NoDate
             /\ c.nextRunAt > c.lastRunAt
             /\ c.nextRunAt <= Days[day] ]_vars

\* C29: isLoading is true whenever a load that loadAllAnalytics started
\* (performance, sales, customer or insights) is still in flight.
C29_LoadingWhileInFlight ==
    InFlight # {} => isLoading

====
